---- MODULE Spec2Model ----
(***************************************************************************)
(* Coffee-bean grading pipeline of the api-platform repository:            *)
(* CVService.extract_all_features, QualityGradingService (per-bean fusion, *)
(* categorisation, batch report).                                          *)
(*                                                                         *)
(* Python floats are IEEE 754 binary64.  They are modelled exactly: a      *)
(* float is a record [sgn, m, e] of value sgn * m * 2^e whose significand  *)
(* m is a natural number of exactly MantBits bits (or 0), held as a        *)
(* little-endian sequence of limbs in base 2^15 so that every intermediate *)
(* value stays inside TLC's integers.  +, -, *, / round to nearest, ties   *)
(* to even, as the hardware does.                                          *)
(***************************************************************************)
EXTENDS Integers, Sequences, FiniteSets, TLC

Min(a, b) == IF a < b THEN a ELSE b

(***************************************************************************)
(* Natural numbers of arbitrary size (limbs, least significant first).     *)
(* A value that is used more than once is passed as a parameter, so that   *)
(* it is computed once.                                                    *)
(***************************************************************************)
LimbBits == 15
Base == 2 ^ LimbBits

RECURSIVE TopLimb(_, _)
\* index of the highest nonzero limb among the first i
TopLimb(a, i) == IF i = 0 THEN 0 ELSE IF a[i] # 0 THEN i ELSE TopLimb(a, i - 1)
BNorm(a) == SubSeq(a, 1, TopLimb(a, Len(a)))

RECURSIVE BFromInt(_)
BFromInt(n) == IF n = 0 THEN <<>> ELSE <<n % Base>> \o BFromInt(n \div Base)

RECURSIVE BToIntAt(_, _)
BToIntAt(a, i) == IF i > Len(a) THEN 0 ELSE a[i] + Base * BToIntAt(a, i + 1)
BToInt(a) == BToIntAt(a, 1)

RECURSIVE BAddC(_, _, _, _)
BAddC(a, b, i, c) ==
  IF i > Len(a) /\ i > Len(b) THEN (IF c = 0 THEN <<>> ELSE <<c>>)
  ELSE LET t == (IF i <= Len(a) THEN a[i] ELSE 0)
                + (IF i <= Len(b) THEN b[i] ELSE 0) + c
       IN  <<t % Base>> \o BAddC(a, b, i + 1, t \div Base)
BAdd(a, b) == BAddC(a, b, 1, 0)

RECURSIVE BSubC(_, _, _, _)
BSubC(a, b, i, br) ==
  IF i > Len(a) THEN <<>>
  ELSE LET t == a[i] - (IF i <= Len(b) THEN b[i] ELSE 0) - br
       IN  IF t < 0 THEN <<t + Base>> \o BSubC(a, b, i + 1, 1)
                    ELSE <<t>> \o BSubC(a, b, i + 1, 0)
\* a - b for a >= b
BSub(a, b) == BNorm(BSubC(a, b, 1, 0))

RECURSIVE BCmpAt(_, _, _)
BCmpAt(a, b, i) ==
  IF i = 0 THEN 0
  ELSE IF a[i] > b[i] THEN 1
  ELSE IF a[i] < b[i] THEN -1
  ELSE BCmpAt(a, b, i - 1)
\* -1, 0, 1 as a < b, a = b, a > b
BCmp(a, b) ==
  IF Len(a) > Len(b) THEN 1
  ELSE IF Len(a) < Len(b) THEN -1
  ELSE BCmpAt(a, b, Len(a))

RECURSIVE BMulSmallC(_, _, _, _)
BMulSmallC(a, k, i, c) ==
  IF i > Len(a) THEN (IF c = 0 THEN <<>> ELSE <<c>>)
  ELSE LET t == a[i] * k + c
       IN  <<t % Base>> \o BMulSmallC(a, k, i + 1, t \div Base)
\* a * k for 0 <= k < Base
BMulSmall(a, k) == IF k = 0 THEN <<>> ELSE BMulSmallC(a, k, 1, 0)

BShiftLimbs(a, q) == IF a = <<>> THEN a ELSE [i \in 1..q |-> 0] \o a

RECURSIVE BMulAcc(_, _, _)
BMulAcc(a, b, j) ==
  IF j > Len(b) THEN <<>>
  ELSE BAdd(BShiftLimbs(BMulSmall(a, b[j]), j - 1), BMulAcc(a, b, j + 1))
BMul(a, b) == BMulAcc(a, b, 1)

RECURSIVE BDivSmallAt(_, _, _, _, _)
\* short division from the top limb down: r the running remainder, q the
\* quotient limbs found so far
BDivSmallAt(a, k, i, r, q) ==
  IF i = 0 THEN [q |-> q, r |-> r]
  ELSE LET t == r * Base + a[i]
       IN  BDivSmallAt(a, k, i - 1, t % k, <<t \div k>> \o q)
BDivSmallNorm(d) == [q |-> BNorm(d.q), r |-> d.r]
\* quotient and remainder of a by k, 0 < k <= Base
BDivSmall(a, k) == BDivSmallNorm(BDivSmallAt(a, k, Len(a), 0, <<>>))

\* a * 2^n
BShl(a, n) == BShiftLimbs(BMulSmall(a, 2 ^ (n % LimbBits)), n \div LimbBits)
\* a \div 2^n
BShr(a, n) ==
  IF n \div LimbBits >= Len(a) THEN <<>>
  ELSE BDivSmall(SubSeq(a, (n \div LimbBits) + 1, Len(a)), 2 ^ (n % LimbBits)).q
\* a % 2^n
BLow(a, n) ==
  BNorm([i \in 1..Min(Len(a), (n \div LimbBits) + 1) |->
           IF i <= n \div LimbBits THEN a[i] ELSE a[i] % (2 ^ (n % LimbBits))])

RECURSIVE BitLenLimb(_)
BitLenLimb(x) == IF x = 0 THEN 0 ELSE 1 + BitLenLimb(x \div 2)
BBitLen(a) ==
  IF a = <<>> THEN 0 ELSE (Len(a) - 1) * LimbBits + BitLenLimb(a[Len(a)])

BOdd(a) == a # <<>> /\ a[1] % 2 = 1

\* q or q + 1: c compares the dropped bits with one half, sticky says the
\* true value lies strictly above them
BRoundUp(q, c, sticky) ==
  IF c > 0 \/ (c = 0 /\ (sticky \/ BOdd(q))) THEN BAdd(q, <<1>>) ELSE q
\* round-half-even of (a / 2^n), n >= 1
BShrRound(a, n, sticky) ==
  BRoundUp(BShr(a, n), BCmp(BLow(a, n), BShl(<<1>>, n - 1)), sticky)

(***************************************************************************)
(* binary64                                                                *)
(***************************************************************************)
MantBits == 53

FZero == [sgn |-> 1, m |-> <<>>, e |-> 0]
IsZero(x) == x.m = <<>>

\* q of MantBits bits, or 2^MantBits after rounding up
FPack(sgn, q, e) ==
  IF BBitLen(q) > MantBits THEN [sgn |-> sgn, m |-> BShr(q, 1), e |-> e + 1]
  ELSE [sgn |-> sgn, m |-> q, e |-> e]

FRoundL(sgn, M, L, e, sticky) ==
  IF L <= MantBits
  THEN [sgn |-> sgn, m |-> BShl(M, MantBits - L), e |-> e - (MantBits - L)]
  ELSE FPack(sgn, BShrRound(M, L - MantBits, sticky), e + (L - MantBits))

\* the float nearest to sgn * (M + s) * 2^e, 0 <= s < 1, s > 0 iff sticky
FRound(sgn, M, e, sticky) ==
  IF M = <<>> THEN FZero ELSE FRoundL(sgn, M, BBitLen(M), e, sticky)

\* int -> float
IntToF(n) ==
  FRound(IF n < 0 THEN -1 ELSE 1, BFromInt(IF n < 0 THEN -n ELSE n), 0, FALSE)

FNeg(x) == IF IsZero(x) THEN x ELSE [x EXCEPT !.sgn = -x.sgn]

\* x + y on aligned significands X, Y of exponent e; c compares X with Y
FAddMag(x, y, X, Y, c, e) ==
  FRound(IF x.sgn = y.sgn \/ c > 0 THEN x.sgn ELSE y.sgn,
         IF x.sgn = y.sgn THEN BAdd(X, Y)
         ELSE IF c > 0 THEN BSub(X, Y)
         ELSE IF c < 0 THEN BSub(Y, X)
         ELSE <<>>,
         e, FALSE)
FAddAligned(x, y, X, Y, e) == FAddMag(x, y, X, Y, BCmp(X, Y), e)

\* float + float
FAdd(x, y) ==
  IF IsZero(x) THEN y
  ELSE IF IsZero(y) THEN x
  ELSE FAddAligned(x, y, BShl(x.m, x.e - Min(x.e, y.e)),
                   BShl(y.m, y.e - Min(x.e, y.e)), Min(x.e, y.e))

\* float - float
FSub(x, y) == FAdd(x, FNeg(y))

\* float * float
FMul(x, y) ==
  IF IsZero(x) \/ IsZero(y) THEN FZero
  ELSE FRound(x.sgn * y.sgn, BMul(x.m, y.m), x.e + y.e, FALSE)

RECURSIVE DivBits(_, _, _)
\* n more quotient bits of st.r / d, appended to st.q (restoring division)
DivBits(st, d, n) ==
  IF n = 0 THEN st
  ELSE IF BCmp(BShl(st.r, 1), d) >= 0
  THEN DivBits([q |-> BAdd(BShl(st.q, 1), <<1>>), r |-> BSub(BShl(st.r, 1), d)],
               d, n - 1)
  ELSE DivBits([q |-> BShl(st.q, 1), r |-> BShl(st.r, 1)], d, n - 1)

\* MantBits + 3 quotient bits of a / d for significands a, d
DivStart(a, d) ==
  IF BCmp(a, d) >= 0 THEN [q |-> <<1>>, r |-> BSub(a, d)] ELSE [q |-> <<>>, r |-> a]
DivSignificands(a, d) ==
  DivBits(DivBits(DivBits(DivBits(DivStart(a, d), d, 14), d, 14), d, 14), d,
          MantBits + 3 - 42)

FDivRound(x, y, qr) ==
  FRound(x.sgn * y.sgn, qr.q, x.e - y.e - (MantBits + 3), qr.r # <<>>)
\* float / float, y # 0
FDiv(x, y) == IF IsZero(x) THEN FZero ELSE FDivRound(x, y, DivSignificands(x.m, y.m))

\* -1, 0, 1 as x < y, x = y, x > y
FCmp(x, y) ==
  IF IsZero(x) /\ IsZero(y) THEN 0
  ELSE IF IsZero(x) THEN -y.sgn
  ELSE IF IsZero(y) THEN x.sgn
  ELSE IF x.sgn # y.sgn THEN x.sgn
  ELSE IF x.e > y.e THEN x.sgn
  ELSE IF x.e < y.e THEN -x.sgn
  ELSE x.sgn * BCmp(x.m, y.m)
FLt(x, y) == FCmp(x, y) < 0
FGe(x, y) == FCmp(x, y) >= 0
FGt(x, y) == FCmp(x, y) > 0

\* the float a decimal literal n / 10^d denotes (n an integer, 10^d < Base)
Dec(n, d) == FDiv(IntToF(n), IntToF(10 ^ d))

ScaledM(M, e) == BToInt(IF e >= 0 THEN BShl(M, e) ELSE BShrRound(M, -e, FALSE))
\* the integer nearest to |x| * 10^d, ties to even, taken on x's exact value
Scaled(x, d) == ScaledM(BMulSmall(x.m, 10 ^ d), x.e)

\* round(x, d): the correctly rounded decimal of d places, read back as a float
PyRound(x, d) == Dec(x.sgn * Scaled(x, d), d)

(***************************************************************************)
(* Python values.  A dict is a function from its keys; None, str and bool  *)
(* are tagged so that truthiness can be taken as Python takes it.          *)
(***************************************************************************)
None == [t |-> "None"]
PyBool(b) == [t |-> "bool", v |-> b]
\* str(b) for a bool b
PyStr(b) == [t |-> "str", v |-> IF b THEN "True" ELSE "False"]
\* bool(x): a str is true unless empty, None is false
Truthy(x) ==
  IF x.t = "bool" THEN x.v
  ELSE IF x.t = "str" THEN x.v # ""
  ELSE FALSE
\* d.get(k, default)
DictGet(d, k, default) == IF k \in DOMAIN d THEN d[k] ELSE default

(***************************************************************************)
(* quality_models.py                                                       *)
(***************************************************************************)
QUALITY_CATEGORIES == <<"Specialty", "Premium", "A", "B", "C">>

\* the dict in insertion order, which is the order .items() yields
QUALITY_THRESHOLDS ==
  << <<"Specialty", Dec(9, 1)>>, <<"Premium", Dec(8, 1)>>, <<"A", Dec(7, 1)>>,
     <<"B", Dec(6, 1)>>, <<"C", Dec(0, 1)>> >>

CNN_CLASS_TO_SCORE_MAP ==
  [Light |-> Dec(95, 2), Medium |-> Dec(85, 2), Dark |-> Dec(40, 2), Green |-> Dec(40, 2)]

(***************************************************************************)
(* CVService.extract_all_features.  What OpenCV measures on the crop and   *)
(* its contour is an input: contourArea, arcLength, and the Canny edge     *)
(* map (edge_pixels pixels of value 255 among size pixels).                *)
(***************************************************************************)
NP_PI == [sgn |-> 1, m |-> <<11544, 10376, 2029, 201>>, e |-> -51]

\* the division without the test of the perimeter
CircularityUnguarded(area, perimeter) ==
  IF IsZero(perimeter) THEN [raised |-> "ZeroDivisionError"]
  ELSE FDiv(FMul(FMul(IntToF(4), NP_PI), area), FMul(perimeter, perimeter))

Circularity(area, perimeter) ==
  IF FGt(perimeter, FZero)
  THEN FDiv(FMul(FMul(IntToF(4), NP_PI), area), FMul(perimeter, perimeter))
  ELSE FZero

EdgeDensity(edge_pixels, size) ==
  IF size > 0 THEN FDiv(IntToF(255 * edge_pixels), IntToF(255 * size)) ELSE FZero

HasCracks(edge_density) == FGt(edge_density, Dec(5, 2))

\* the locals of one call, and the dict it returns
FeaturesOf(area, perimeter, circularity, edges, edge_density, has_cracks_bool) ==
  [locals |-> [circularity |-> circularity, edges |-> edges,
               edge_density |-> edge_density,
               has_cracks_bool |-> has_cracks_bool],
   features |-> [area |-> area, perimeter |-> perimeter,
                 circularity |-> circularity,
                 has_cracks |-> PyStr(has_cracks_bool)]]
FeaturesOfDensity(area, perimeter, circularity, edges, edge_density) ==
  FeaturesOf(area, perimeter, circularity, edges, edge_density,
             HasCracks(edge_density))

extract_all_features(area, perimeter, edge_pixels, size) ==
  FeaturesOfDensity(area, perimeter, Circularity(area, perimeter),
                    [sum |-> 255 * edge_pixels, size |-> size],
                    EdgeDensity(edge_pixels, size))

(***************************************************************************)
(* QualityGradingService                                                   *)
(***************************************************************************)
\* max(0.0, x)
FMax0(x) == IF FGt(x, FZero) THEN x ELSE FZero

\* shape_score after the circularity test
CircularityPenalty(features) ==
  IF FLt(DictGet(features, "circularity", Dec(5, 1)), Dec(7, 1))
  THEN FSub(IntToF(1), Dec(3, 1)) ELSE IntToF(1)
\* shape_score after the crack test
CrackPenalty(features, shape_score) ==
  IF Truthy(DictGet(features, "has_cracks", PyBool(FALSE)))
  THEN FSub(shape_score, Dec(2, 1)) ELSE shape_score

_evaluate_shape_quality(features) ==
  FMax0(CrackPenalty(features, CircularityPenalty(features)))

RECURSIVE ThresholdWalkStrict(_, _, _)
\* the walk with score > threshold for score >= threshold
ThresholdWalkStrict(final_score, thresholds, i) ==
  IF i > Len(thresholds) THEN "C"
  ELSE IF FGt(final_score, thresholds[i][2]) THEN thresholds[i][1]
  ELSE ThresholdWalkStrict(final_score, thresholds, i + 1)

RECURSIVE ThresholdWalkFlipped(_, _, _)
\* the walk with threshold >= score for score >= threshold
ThresholdWalkFlipped(final_score, thresholds, i) ==
  IF i > Len(thresholds) THEN "C"
  ELSE IF FGe(thresholds[i][2], final_score) THEN thresholds[i][1]
  ELSE ThresholdWalkFlipped(final_score, thresholds, i + 1)

RECURSIVE ThresholdWalk(_, _, _)
ThresholdWalk(final_score, thresholds, i) ==
  IF i > Len(thresholds) THEN "C"
  ELSE IF FGe(final_score, thresholds[i][2]) THEN thresholds[i][1]
  ELSE ThresholdWalk(final_score, thresholds, i + 1)

_determine_quality_category(final_score) ==
  ThresholdWalk(final_score, QUALITY_THRESHOLDS, 1)

Assessment(base_score, source_category, shape_score, final_score) ==
  [quality_category |-> _determine_quality_category(final_score),
   final_score |-> PyRound(final_score, 3),
   base_quality_score |-> base_score,
   shape_score |-> shape_score,
   source_category_color |-> source_category]

\* the fusion with the two weights exchanged
FuseSwappedWeights(base_score, source_category, shape_score) ==
  Assessment(base_score, source_category, shape_score,
             FAdd(FMul(base_score, Dec(3, 1)), FMul(shape_score, Dec(7, 1))))

Fuse(base_score, source_category, shape_score) ==
  Assessment(base_score, source_category, shape_score,
             FAdd(FMul(base_score, Dec(7, 1)), FMul(shape_score, Dec(3, 1))))

\* base_score * 0.7 raises TypeError when base_score is None
calculate_final_quality(base_score, source_category, features) ==
  IF base_score = None THEN [raised |-> "TypeError"]
  ELSE Fuse(base_score, source_category, _evaluate_shape_quality(features))

RECURSIVE CategoryCountAssign(_, _, _)
\* the count with = 1 for += 1
CategoryCountAssign(bean_assessments, count, n) ==
  IF n = Len(bean_assessments) THEN count
  ELSE CategoryCountAssign(bean_assessments,
         IF bean_assessments[n + 1].quality_category \in DOMAIN count
         THEN [count EXCEPT ![bean_assessments[n + 1].quality_category] = 1]
         ELSE count,
         n + 1)

\* the count without the zero-filled start: only the categories met
CategoryCountSparse(bean_assessments, count, n) ==
  [c \in {bean_assessments[i].quality_category : i \in DOMAIN bean_assessments} |->
     Cardinality({i \in DOMAIN bean_assessments :
                    bean_assessments[i].quality_category = c})]

RECURSIVE CategoryCount(_, _, _)
\* category_count after the beans n+1..: count so far, n beans done
CategoryCount(bean_assessments, count, n) ==
  IF n = Len(bean_assessments) THEN count
  ELSE CategoryCount(bean_assessments,
         IF bean_assessments[n + 1].quality_category \in DOMAIN count
         THEN [count EXCEPT ![bean_assessments[n + 1].quality_category] = @ + 1]
         ELSE count,
         n + 1)

RECURSIVE PySumSkipFirst(_, _)
\* the sum that leaves out the first bean
PySumSkipFirst(bean_assessments, n) ==
  IF n <= 1 THEN FZero
  ELSE FAdd(PySumSkipFirst(bean_assessments, n - 1), bean_assessments[n].final_score)

RECURSIVE PySum(_, _)
\* sum(bean['final_score'] for the first n beans): left to right from int 0
PySum(bean_assessments, n) ==
  IF n = 0 THEN FZero
  ELSE FAdd(PySum(bean_assessments, n - 1), bean_assessments[n].final_score)

BatchReport(bean_assessments, total_beans, avg_score) ==
  [total_beans_analyzed |-> total_beans,
   category_distribution |->
     CategoryCount(bean_assessments,
                   [c \in {QUALITY_CATEGORIES[i] : i \in DOMAIN QUALITY_CATEGORIES} |-> 0],
                   0),
   average_quality_score |-> PyRound(avg_score, 3),
   lot_quality |-> _determine_quality_category(avg_score)]

\* the report without the guard for the empty list: the division raises
generate_batch_report_unguarded(bean_assessments) ==
  IF Len(bean_assessments) = 0 THEN [raised |-> "ZeroDivisionError"]
  ELSE BatchReport(bean_assessments, Len(bean_assessments),
                   FDiv(PySum(bean_assessments, Len(bean_assessments)),
                        IntToF(Len(bean_assessments))))

generate_batch_report(bean_assessments) ==
  IF Len(bean_assessments) = 0 THEN [error |-> "No se analizaron granos"]
  ELSE BatchReport(bean_assessments, Len(bean_assessments),
                   FDiv(PySum(bean_assessments, Len(bean_assessments)),
                        IntToF(Len(bean_assessments))))

(***************************************************************************)
(* MLPredictorService.predict_color_percentages.  What the CNN does is an  *)
(* input: inference either throws or yields the vector raw_predictions.    *)
(* A dict is held as the sequence of its <<key, value>> items in insertion *)
(* order.                                                                  *)
(***************************************************************************)
CNN_COLOR_CLASSES == <<"Dark", "Green", "Light", "Medium">>

RECURSIVE RoundedPredictions(_, _, _)
\* predictions after the loop over the first n classes
RoundedPredictions(raw_predictions, color_classes, n) ==
  IF n = 0 THEN <<>>
  ELSE Append(RoundedPredictions(raw_predictions, color_classes, n - 1),
              <<color_classes[n], PyRound(raw_predictions[n], 3)>>)

RECURSIVE SumValues(_, _)
\* sum(predictions.values()) over the first n items
SumValues(predictions, n) ==
  IF n = 0 THEN FZero ELSE FAdd(SumValues(predictions, n - 1), predictions[n][2])

Renormalized(predictions, total_prob) ==
  IF FGt(total_prob, FZero)
  THEN [i \in DOMAIN predictions |->
          <<predictions[i][1],
            FMul(FDiv(predictions[i][2], total_prob), IntToF(100))>>]
  ELSE predictions

\* a dict value: its items in insertion order
PyDict(items) == [t |-> "dict", items |-> items]

NormalizeTo100(predictions) ==
  PyDict(Renormalized(predictions, SumValues(predictions, Len(predictions))))

\* as predict_color_percentages with every exception let through
predict_color_percentages_uncaught(model, inference, color_classes) ==
  IF model = None THEN None
  ELSE IF inference.throws THEN [raised |-> "Exception"]
  ELSE IF Len(inference.raw_predictions) < Len(color_classes)
  THEN [raised |-> "IndexError"]
  ELSE NormalizeTo100(RoundedPredictions(inference.raw_predictions, color_classes,
                                         Len(color_classes)))

\* raw_predictions[i] beyond the vector raises IndexError inside the try
predict_color_percentages(model, inference, color_classes) ==
  IF model = None THEN None
  ELSE IF inference.throws THEN None
  ELSE IF Len(inference.raw_predictions) < Len(color_classes) THEN None
  ELSE NormalizeTo100(RoundedPredictions(inference.raw_predictions, color_classes,
                                         Len(color_classes)))

(***************************************************************************)
(* CVService.segment_beans.  What cv2.findContours yields is an input:     *)
(* each contour is [id, area], id standing for its points and area being   *)
(* cv2.contourArea of it; the crop of the image to the contour's bounding  *)
(* rectangle is [crop_of |-> id].                                          *)
(***************************************************************************)
BeanOf(c) == [image |-> [crop_of |-> c.id], contour |-> c]

RECURSIVE BeansDataAtLeast(_, _)
\* the loop with area >= 500 for area > 500
BeansDataAtLeast(cs, n) ==
  IF n = 0 THEN <<>>
  ELSE IF FGe(cs[n].area, IntToF(500))
  THEN Append(BeansDataAtLeast(cs, n - 1), BeanOf(cs[n]))
  ELSE BeansDataAtLeast(cs, n - 1)

RECURSIVE BeansData(_, _)
\* beans_data after the loop over the first n contours
BeansData(cs, n) ==
  IF n = 0 THEN <<>>
  ELSE IF FGt(cs[n].area, IntToF(500))
  THEN Append(BeansData(cs, n - 1), BeanOf(cs[n]))
  ELSE BeansData(cs, n - 1)

\* a list value
PyList(items) == [t |-> "list", items |-> items]

segment_beans(cs) == PyList(BeansData(cs, Len(cs)))

(***************************************************************************)
(* CVService.load_image_from_bytes.  The codec is an input of the model:   *)
(* cv2.imdecode raises on an empty buffer, yields an image for a buffer    *)
(* that starts with a format's magic byte and has data after it, and       *)
(* yields None for any other buffer.                                       *)
(***************************************************************************)
\* no call yet
Unset == [t |-> "Unset"]
\* first byte of a JPEG and of a PNG file
MagicBytes == {255, 137}

\* np.frombuffer(image_bytes, np.uint8)
frombuffer(image_bytes) == image_bytes

imdecode(nparr) ==
  IF nparr = <<>> THEN [raised |-> "cv2.error"]
  ELSE IF nparr[1] \in MagicBytes /\ Len(nparr) >= 2
  THEN [t |-> "ndarray", decoded_from |-> nparr]
  ELSE None

\* the body of the try block: the image, or the exception raised
TryLoad(img) ==
  IF "raised" \in DOMAIN img THEN img
  ELSE IF img = None THEN [raised |-> "ValueError"]
  ELSE img

\* as load_image_from_bytes without the except clause
load_image_from_bytes_uncaught(image_bytes) == TryLoad(imdecode(frombuffer(image_bytes)))

\* except Exception: return None
CatchAll(outcome) == IF "raised" \in DOMAIN outcome THEN None ELSE outcome

load_image_from_bytes(image_bytes) == CatchAll(TryLoad(imdecode(frombuffer(image_bytes))))

(***************************************************************************)
(* ClassificationSession                                                   *)
(***************************************************************************)
\* a new session: the column defaults
NewSession ==
  [status |-> "STARTED", total_grains_analyzed |-> 0,
   processing_time_seconds |-> None, classification_result |-> None,
   completed_at |-> None]

complete(self, rep, time_taken, now) ==
  [self EXCEPT !.status = "COMPLETED",
               !.classification_result = rep,
               !.total_grains_analyzed = DictGet(rep, "total_beans_analyzed", 0),
               !.processing_time_seconds = time_taken,
               !.completed_at = now]

\* fail that leaves the status as it was
fail_keeps_status(self, reason, now) ==
  [self EXCEPT !.classification_result = [error |-> reason],
               !.completed_at = now]

fail(self, reason, now) ==
  [self EXCEPT !.status = "FAILED",
               !.classification_result = [error |-> reason],
               !.completed_at = now]

(***************************************************************************)
(* The orchestrator of one run (ClassificationApplicationService), as the  *)
(* specification of the pipeline describes it: segment; for each region    *)
(* in segmentation order extract features, classify colour, grade;         *)
(* aggregate.  A bean without a colour signal is graded from a fallback    *)
(* base score; a run without beans fails.                                  *)
(***************************************************************************)
RECURSIVE DominantItem(_, _)
\* the item of the highest percentage among the first n, the first on a tie
DominantItem(items, n) ==
  IF n = 1 THEN items[1]
  ELSE IF FGt(items[n][2], DominantItem(items, n - 1)[2]) THEN items[n]
  ELSE DominantItem(items, n - 1)

FallbackBase == [base_score |-> Dec(5, 1), source_category |-> "Unknown"]

\* the base score without the fallback: None when there is no colour signal
BaseOfNoFallback(color_percentages) ==
  IF color_percentages = None
  THEN [base_score |-> None, source_category |-> "Unknown"]
  ELSE [base_score |-> CNN_CLASS_TO_SCORE_MAP[DominantItem(color_percentages.items, 4)[1]],
        source_category |-> DominantItem(color_percentages.items, 4)[1]]

\* base score and source category of a bean: the table entry of its
\* dominant colour class, or the fallback
BaseOf(color_percentages) ==
  IF color_percentages = None THEN FallbackBase
  ELSE [base_score |-> CNN_CLASS_TO_SCORE_MAP[DominantItem(color_percentages.items, 4)[1]],
        source_category |-> DominantItem(color_percentages.items, 4)[1]]

GradeWith(base, bean_features) ==
  calculate_final_quality(base.base_score, base.source_category, bean_features)

(***************************************************************************)
(* HashService.  A dict is PyDict of its items <<key, value>> in insertion *)
(* order; a value is None or [t, v] with t one of "str", "int", "float",   *)
(* "bool", a float carrying its repr.  A hash is the digest of the exact    *)
(* string it was computed from.                                            *)
(***************************************************************************)
RECURSIVE ItemsGet(_, _, _)
ItemsGet(items, k, n) ==
  IF n = 0 THEN None
  ELSE IF items[n][1] = k THEN items[n][2]
  ELSE ItemsGet(items, k, n - 1)

\* d.get(k)
PyGet(d, k) == ItemsGet(d.items, k, Len(d.items))

\* every key of the model's dicts, in the order sort_keys puts them
JsonKeyOrder ==
  <<"coffee_lot_id", "final_category", "final_score", "lot_owner", "processing_time",
    "processing_time_seconds", "session_id", "timestamp", "total_grains_analyzed">>

RECURSIVE ItemOf(_, _, _)
\* the item of key k among the first n items, as a sequence of one or none
ItemOf(items, k, n) ==
  IF n = 0 THEN <<>>
  ELSE IF items[n][1] = k THEN <<items[n]>>
  ELSE ItemOf(items, k, n - 1)

RECURSIVE SortedItems(_, _)
\* the items whose key is among the first n of JsonKeyOrder, in that order
SortedItems(items, n) ==
  IF n = 0 THEN <<>>
  ELSE SortedItems(items, n - 1) \o ItemOf(items, JsonKeyOrder[n], Len(items))

\* the JSON text of a value
JsonEncode(x) ==
  IF x = None THEN "null"
  ELSE IF x.t = "bool" THEN (IF x.v THEN "true" ELSE "false")
  ELSE IF x.t = "int" THEN ToString(x.v)
  ELSE IF x.t = "float" THEN x.v
  ELSE "\"" \o x.v \o "\""

RECURSIVE JsonMembers(_, _)
JsonMembers(items, n) ==
  IF n = 0 THEN ""
  ELSE (IF n = 1 THEN "" ELSE JsonMembers(items, n - 1) \o ",") \o
       "\"" \o items[n][1] \o "\":" \o JsonEncode(items[n][2])

JsonObject(items) == "{" \o JsonMembers(items, Len(items)) \o "}"

\* json.dumps(d, sort_keys=True, separators=(',', ':'))
json_dumps(items) == JsonObject(SortedItems(items, Len(JsonKeyOrder)))

\* hashlib.sha256(s.encode('utf-8')).hexdigest()
sha256(json_string) == [t |-> "sha256", hexdigest_of |-> json_string]

\* the hash of the whole input dict
generate_certification_hash_whole_input(classification_data) ==
  sha256(json_dumps(classification_data.items))

generate_certification_hash(classification_data) ==
  sha256(json_dumps(<<
    <<"session_id", PyGet(classification_data, "session_id")>>,
    <<"coffee_lot_id", PyGet(classification_data, "coffee_lot_id")>>,
    <<"final_score", PyGet(classification_data, "final_score")>>,
    <<"final_category", PyGet(classification_data, "final_category")>>,
    <<"total_grains_analyzed", PyGet(classification_data, "total_grains_analyzed")>>,
    <<"timestamp", PyGet(classification_data, "timestamp")>>,
    <<"processing_time", PyGet(classification_data, "processing_time_seconds")>> >>))

verify_hash(original_data, provided_hash) ==
  generate_certification_hash(original_data) = provided_hash

(***************************************************************************)
(* CertificationRecord, CertificationRepository and the certification      *)
(* services.  The table is the sequence of its rows; a datetime is         *)
(* [t |-> "datetime", v |-> ticks].                                        *)
(***************************************************************************)
CertificationRecord(certification_id, classification_session_id, coffee_lot_id, certification_hash, quality_score, quality_category, total_grains_analyzed, classification_metadata, verification_token) ==
  [certification_id |-> certification_id,
   classification_session_id |-> classification_session_id,
   coffee_lot_id |-> coffee_lot_id,
   certification_hash |-> certification_hash,
   quality_score |-> quality_score,
   quality_category |-> quality_category,
   total_grains_analyzed |-> total_grains_analyzed,
   classification_metadata |-> classification_metadata,
   verification_token |-> verification_token,
   status |-> "ACTIVE",
   is_public |-> TRUE,
   expires_at |-> None,
   certification_notes |-> None]

revoke(self, reason) ==
  [self EXCEPT !.status = "REVOKED", !.certification_notes = "Revoked: " \o reason]

\* verify without the test of the status
verify_any_status(self) == [self EXCEPT !.status = "VERIFIED"]

verify(self) ==
  IF self.status = "ACTIVE" THEN [self EXCEPT !.status = "VERIFIED"] ELSE self

is_valid(self, utcnow) ==
  IF self.status = "REVOKED" THEN FALSE
  ELSE IF self.expires_at # None /\ utcnow > self.expires_at.v THEN FALSE
  ELSE TRUE

\* the first row of a query, 0 for None
FirstRow(rows) == IF rows = {} THEN 0 ELSE CHOOSE i \in rows : \A j \in rows : i <= j

find_by_classification_session(table, session_id) ==
  FirstRow({i \in DOMAIN table : table[i].classification_session_id = session_id})

find_by_hash(table, certification_hash) ==
  FirstRow({i \in DOMAIN table : table[i].certification_hash = certification_hash})

find_by_certification_id(table, certification_id) ==
  FirstRow({i \in DOMAIN table : table[i].certification_id = certification_id})

\* x / 100 of the quality scores the requests carry, as Python prints it
Hundredth(x) ==
  [t |-> "float",
   v |-> IF x.v = "86.5" THEN "0.865" ELSE IF x.v = "35.35" THEN "0.35350000000000004"
         ELSE "0.0"]

\* datetime.isoformat()
isoformat(ticks) == [t |-> "str", v |-> "2025-11-28T10:00:0" \o ToString(ticks) \o "+00:00"]

\* x or y
PyOr(x, y) == IF Truthy(x) THEN x ELSE y

\* hash_data of handle_create_certification
HashData(command, utcnow) ==
  PyDict(<<
    <<"session_id", PyGet(command.classification_metadata, "session_id_vo")>>,
    <<"coffee_lot_id", [t |-> "int", v |-> command.coffee_lot_id]>>,
    <<"final_score", Hundredth(command.quality_score)>>,
    <<"final_category", [t |-> "str", v |-> command.quality_category]>>,
    <<"total_grains_analyzed", [t |-> "int", v |-> command.total_grains_analyzed]>>,
    <<"timestamp", PyOr(PyGet(command.classification_metadata, "completed_at"),
                        isoformat(utcnow))>>,
    <<"processing_time_seconds",
      PyGet(command.classification_metadata, "processing_time_seconds")>> >>)

\* the aggregate handle_create_certification builds, with its optional fields
NewCertification(command, certification_hash, n, utcnow) ==
  [CertificationRecord("CERT-" \o ToString(n), command.classification_session_id,
                       command.coffee_lot_id, certification_hash, command.quality_score,
                       command.quality_category, command.total_grains_analyzed,
                       command.classification_metadata, "TOKEN-" \o ToString(n))
     EXCEPT !.expires_at = IF command.expires_in_days = None THEN None
                           ELSE [t |-> "datetime", v |-> utcnow + command.expires_in_days.v]]

HTTPException(status_code, detail) == [status_code |-> status_code, detail |-> detail]

\* repository.save of a new row: the unique index of certification_hash
\* rejects a second row with the same hash
SaveNew(table, certification) ==
  IF find_by_hash(table, certification.certification_hash) # 0
  THEN [table |-> table, response |-> HTTPException(500, "IntegrityError")]
  ELSE [table |-> Append(table, certification),
        response |-> [status_code |-> 201, body |-> certification]]

AlreadyExists(classification_session_id) ==
  HTTPException(409, "Certification already exists for session "
                     \o ToString(classification_session_id))

HashCollision ==
  HTTPException(409, "Hash collision detected. This is extremely rare - please retry.")

\* handle_create_certification from the hash on
CreateFromHash(table, command, certification_hash, utcnow) ==
  IF find_by_hash(table, certification_hash) # 0
  THEN [table |-> table, response |-> HashCollision]
  ELSE SaveNew(table, NewCertification(command, certification_hash, Len(table) + 1, utcnow))

handle_create_certification(table, command, utcnow) ==
  IF find_by_classification_session(table, command.classification_session_id) # 0
  THEN [table |-> table, response |-> AlreadyExists(command.classification_session_id)]
  ELSE CreateFromHash(table, command,
                      generate_certification_hash(HashData(command, utcnow)), utcnow)

\* the revocation without the test for an already revoked certificate
handle_revoke_certification_again(table, certification_id, reason, i) ==
  IF i = 0
  THEN [table |-> table,
        response |-> HTTPException(404, "Certification " \o certification_id \o " not found")]
  ELSE [table |-> [table EXCEPT ![i] = revoke(table[i], reason)],
        response |-> [status_code |-> 200, body |-> revoke(table[i], reason)]]

\* i is what find_by_certification_id returned
handle_revoke_certification(table, certification_id, reason, i) ==
  IF i = 0
  THEN [table |-> table,
        response |-> HTTPException(404, "Certification " \o certification_id \o " not found")]
  ELSE IF table[i].status = "REVOKED"
  THEN [table |-> table, response |-> HTTPException(400, "Certification is already revoked")]
  ELSE [table |-> [table EXCEPT ![i] = revoke(table[i], reason)],
        response |-> [status_code |-> 200, body |-> revoke(table[i], reason)]]

\* the result dict, given the row found and the recomputed integrity
VerificationResult(certification, hash_is_valid, utcnow) ==
  [verified |-> hash_is_valid /\ is_valid(certification, utcnow),
   certification_id |-> certification.certification_id,
   certification_hash |-> certification.certification_hash,
   status |-> certification.status,
   hash_integrity_check |-> hash_is_valid]

\* i is what find_by_hash returned
handle_verify_by_hash(table, certification_hash, utcnow, i) ==
  IF i = 0
  THEN [verified |-> FALSE, message |-> "Certification hash not found",
        certification_hash |-> certification_hash]
  ELSE VerificationResult(table[i],
                          verify_hash(table[i].classification_metadata, certification_hash),
                          utcnow)

(***************************************************************************)
(* LotNumberGeneratorService                                               *)
(***************************************************************************)
\* datetime.now().year
current_year == 2025

\* f"{sequential:04d}"
Format04d(n) ==
  (IF n < 10 THEN "000" ELSE IF n < 100 THEN "00" ELSE IF n < 1000 THEN "0" ELSE "")
  \o ToString(n)

\* f"LOT-{current_year}-{sequential:04d}"
LotNumber(year, n) == "LOT-" \o ToString(year) \o "-" \o Format04d(n)

\* repository.exists_by_lot_number(lot_number)
exists_by_lot_number(table, lot_number) == \E i \in DOMAIN table : table[i] = lot_number

(***************************************************************************)
(* POST /session.  What the service call does is an input: it returns a    *)
(* session or raises [raised |-> class, message |-> str(e)].  An exception *)
(* raised in the try block is handled by the first except clause whose     *)
(* class it is an instance of; HTTPException is an Exception and not a     *)
(* ValueError.                                                             *)
(***************************************************************************)
GenericDetail == "Error interno del servidor de clasificación."

\* the try block: the service call and the test of the session's status
TryBlock(outcome) ==
  IF "raised" \in DOMAIN outcome THEN outcome
  ELSE IF outcome.returned.status = "FAILED"
  THEN [raised |-> "HTTPException", status_code |-> 500,
        detail |-> "Clasificación fallida: "
                   \o DictGet(outcome.returned.classification_result, "error", "None")]
  ELSE [status_code |-> 201, body |-> outcome.returned]

\* the except clauses
ExceptClauses(tried) ==
  IF "raised" \notin DOMAIN tried THEN tried
  ELSE IF tried.raised = "ValueError" THEN HTTPException(400, tried.message)
  ELSE HTTPException(500, GenericDetail)

start_and_process_classification_session(content_type, outcome) ==
  IF content_type \notin {"image/jpeg", "image/png"}
  THEN HTTPException(400, "Formato de imagen no válido. Usar JPG o PNG.")
  ELSE ExceptClauses(TryBlock(outcome))

(***************************************************************************)
(* MLPredictorService._load_model.  The environment env says what each     *)
(* external call does: os.path.exists, keras load_model of the local file, *)
(* os.remove, the configured MODEL_BLOB_URL, the download, and load_model  *)
(* of the downloaded file.  A step yields the next statement and, at the   *)
(* end, the returned value.                                                *)
(***************************************************************************)
DefaultBlobUrl == "https://your-blob-storage-url-here"

\* True when the file was downloaded and written
_download_model_from_blob(env) ==
  IF env.url = "" \/ env.url = DefaultBlobUrl THEN FALSE
  ELSE env.download = "ok"

\* _load_model with the exception of the load after the download let through
_load_model_uncaught(at, env) ==
  IF at = "exists" THEN [at |-> IF env.exists THEN "local_load" ELSE "download"]
  ELSE IF at = "local_load"
  THEN (IF env.local_load = "ok" THEN [at |-> "done", returned |-> [t |-> "Model"]]
        ELSE [at |-> "remove"])
  ELSE IF at = "remove" THEN [at |-> "download"]
  ELSE IF at = "download"
  THEN (IF _download_model_from_blob(env) THEN [at |-> "post_load"]
        ELSE [at |-> "done", returned |-> None])
  ELSE IF env.post_load = "ok" THEN [at |-> "done", returned |-> [t |-> "Model"]]
  ELSE [at |-> "done", returned |-> [raised |-> "Exception"]]

_load_model(at, env) ==
  IF at = "exists" THEN [at |-> IF env.exists THEN "local_load" ELSE "download"]
  ELSE IF at = "local_load"
  THEN (IF env.local_load = "ok" THEN [at |-> "done", returned |-> [t |-> "Model"]]
        ELSE [at |-> "remove"])
  ELSE IF at = "remove" THEN [at |-> "download"]
  ELSE IF at = "download"
  THEN (IF _download_model_from_blob(env) THEN [at |-> "post_load"]
        ELSE [at |-> "done", returned |-> None])
  ELSE IF env.post_load = "ok" THEN [at |-> "done", returned |-> [t |-> "Model"]]
  ELSE [at |-> "done", returned |-> None]

(***************************************************************************)
(* State                                                                   *)
(***************************************************************************)
\* threadpool threads that resolve dependencies, and requests per thread
MaxThreads == 2
MaxRequests == 2
Threads == 1..MaxThreads

\* hashes generated in one behaviour
MaxIssued == 2

\* server processes sharing the database, stored certificates, clock ticks
MaxWorkers == 2
MaxCerts == 2
MaxNow == 1
Workers == 1..MaxWorkers

\* rows of coffee_lots
MaxLots == 3

VARIABLES
  pc,                \* where the run over one image stands
  cv,                \* locals of the last extract_all_features call, or None
  features,          \* the features dict handed to the grader, or None
  bean_assessments,  \* the assessments of the lot so far
  report,            \* what generate_batch_report returned, or None
  calls,             \* _determine_quality_category calls: <<argument, result>>
  cnn_model,         \* MLPredictorService.cnn_model: the loaded model, or None
  predictions,       \* predict_color_percentages calls: <<inference, result>>
  contours,          \* what findContours yielded on the image, in its order
  beans_data,        \* what segment_beans returned, or None
  image_bytes,       \* the bytes handed to load_image_from_bytes
  image,             \* what load_image_from_bytes returned, or Unset
  session,           \* the ClassificationSession of the run, or None
  next_bean,         \* position in beans_data of the region to process next
  singleton,         \* get_ml_predictor.singleton, Unset while the attribute is missing
  tpc,               \* position of each threadpool thread inside get_ml_predictor
  constructing,      \* the instance a thread has constructed and not yet assigned
  served,            \* number of requests each thread has resolved the dependency for
  received,          \* the instances get_ml_predictor has returned
  constructed,       \* number of MLPredictorService instances constructed
  issued,            \* the hashes generated so far, each with the data it was generated from
  verified,          \* the last verify_hash call: its data, the hash provided and the result
  certs,             \* the certification_records table, rows in insertion order
  wpc,               \* position of each server process inside handle_create_certification
  wreq,              \* the create request each server process is handling
  response,          \* the last response of the certification endpoints
  now,               \* datetime.now(UTC), in ticks
  lots,              \* the lot numbers of the coffee_lots rows of the current year
  gpc,               \* position of each caller inside generate_lot_number
  sequential,        \* the sequential of each caller
  exchanges,         \* the requests POST /session has answered, each with its response
  load_at,           \* the statement _load_model is at
  load_env,          \* what the file system, keras and the network do during this load
  load_trace,        \* the operations _load_model has attempted, in order
  loaded,            \* what _load_model returned, Unset before it returns
  aggregate,         \* a ClassificationSession whose methods are called directly, None before it is constructed
  method_calls,      \* the complete() and fail() calls made on it, in order
  utcnow,            \* what datetime.now(UTC) returns
  permuted           \* the last report asked for a reordering of the lot: the order and the report

gradingVars == <<pc, cv, features, bean_assessments, report, calls>>
predictorVars == <<cnn_model, predictions>>
segmentVars == <<contours, beans_data>>
imageVars == <<image_bytes, image>>
sessionVars == <<session, next_bean>>
singletonVars == <<singleton, tpc, constructing, served, received, constructed>>
hashVars == <<issued, verified>>
certVars == <<certs, wpc, wreq, response, now>>
lotVars == <<lots, gpc, sequential>>
endpointVars == <<exchanges>>
loaderVars == <<load_at, load_env, load_trace, loaded>>
aggregateVars == <<aggregate, method_calls, utcnow>>
orderVars == <<permuted>>
nonGradingVars == <<predictorVars, segmentVars, imageVars, sessionVars, singletonVars, hashVars, certVars, lotVars, endpointVars, loaderVars, aggregateVars, orderVars>>
nonPredictorVars == <<gradingVars, segmentVars, imageVars, sessionVars, singletonVars, hashVars, certVars, lotVars, endpointVars, loaderVars, aggregateVars, orderVars>>
nonSegmentVars == <<gradingVars, predictorVars, imageVars, sessionVars, singletonVars, hashVars, certVars, lotVars, endpointVars, loaderVars, aggregateVars, orderVars>>
nonImageVars == <<gradingVars, predictorVars, segmentVars, sessionVars, singletonVars, hashVars, certVars, lotVars, endpointVars, loaderVars, aggregateVars, orderVars>>
nonSessionVars == <<gradingVars, predictorVars, segmentVars, imageVars, singletonVars, hashVars, certVars, lotVars, endpointVars, loaderVars, aggregateVars, orderVars>>
nonSingletonVars == <<gradingVars, predictorVars, segmentVars, imageVars, sessionVars, hashVars, certVars, lotVars, endpointVars, loaderVars, aggregateVars, orderVars>>
nonHashVars == <<gradingVars, predictorVars, segmentVars, imageVars, sessionVars, singletonVars, certVars, lotVars, endpointVars, loaderVars, aggregateVars, orderVars>>
\* the variables no step of a pipeline run touches
nonRunVars == <<singletonVars, hashVars, certVars, lotVars, endpointVars, loaderVars, aggregateVars, orderVars>>
nonCertVars == <<gradingVars, predictorVars, segmentVars, imageVars, sessionVars, singletonVars, hashVars, lotVars, endpointVars, loaderVars, aggregateVars, orderVars>>
nonLotVars == <<gradingVars, predictorVars, segmentVars, imageVars, sessionVars, singletonVars, hashVars, certVars, endpointVars, loaderVars, aggregateVars, orderVars>>
nonEndpointVars == <<gradingVars, predictorVars, segmentVars, imageVars, sessionVars, singletonVars, hashVars, certVars, lotVars, loaderVars, aggregateVars, orderVars>>
nonLoaderVars == <<gradingVars, predictorVars, segmentVars, imageVars, sessionVars, singletonVars, hashVars, certVars, lotVars, endpointVars, aggregateVars, orderVars>>
nonAggregateVars == <<gradingVars, predictorVars, segmentVars, imageVars, sessionVars, singletonVars, hashVars, certVars, lotVars, endpointVars, loaderVars, orderVars>>
nonOrderVars == <<gradingVars, predictorVars, segmentVars, imageVars, sessionVars, singletonVars, hashVars, certVars, lotVars, endpointVars, loaderVars, aggregateVars>>
vars == <<gradingVars, predictorVars, segmentVars, imageVars, sessionVars, singletonVars, hashVars, certVars, lotVars, endpointVars, loaderVars, aggregateVars, orderVars>>

\* bounds
MaxBeans == 2
MaxCalls == 2

\* contourArea and arcLength of a segmented bean (area > 500): a compact
\* outline (circularity 0.754) and an elongated one (0.524)
Contours == {<<IntToF(600), IntToF(100)>>, <<IntToF(600), IntToF(120)>>}
\* Canny edge pixels among the pixels of the crop: 0%, exactly 5%, 6%
EdgeMaps == {<<0, 100>>, <<5, 100>>, <<6, 100>>}
\* base_score and source_category the caller derives from the colour model
Beans == {<<Dec(95, 2), "Light">>, <<Dec(363, 3), "Green">>, <<Dec(40, 2), "Dark">>}

Init ==
  /\ pc = "idle"
  /\ cv = None
  /\ features = None
  /\ bean_assessments = <<>>
  /\ report = None
  /\ calls = <<>>
  /\ cnn_model = None
  /\ predictions = <<>>
  /\ contours = <<>>
  /\ beans_data = None
  /\ image_bytes = <<>>
  /\ image = Unset
  /\ session = None
  /\ next_bean = 1
  /\ singleton = Unset
  /\ tpc = [t \in Threads |-> "idle"]
  /\ constructing = [t \in Threads |-> None]
  /\ served = [t \in Threads |-> 0]
  /\ received = {}
  /\ constructed = 0
  /\ issued = <<>>
  /\ verified = None
  /\ certs = <<>>
  /\ wpc = [w \in Workers |-> "idle"]
  /\ wreq = [w \in Workers |-> None]
  /\ response = None
  /\ now = 0
  /\ lots = <<>>
  /\ gpc = [w \in Workers |-> "idle"]
  /\ sequential = [w \in Workers |-> 0]
  /\ exchanges = <<>>
  /\ load_at = "idle"
  /\ load_env = None
  /\ load_trace = <<>>
  /\ loaded = Unset
  /\ aggregate = None
  /\ method_calls = <<>>
  /\ utcnow = 0
  /\ permuted = None

ExtractAllFeatures(area, perimeter, edge_pixels, size) ==
  /\ pc \in {"idle", "graded"}
  /\ Len(bean_assessments) < MaxBeans
  /\ \E r \in {extract_all_features(area, perimeter, edge_pixels, size)} :
       /\ cv' = r.locals
       /\ features' = r.features
  /\ pc' = "extracted"
  /\ UNCHANGED <<bean_assessments, report, calls>>
  /\ UNCHANGED nonGradingVars

CalculateFinalQuality(base_score, source_category) ==
  /\ pc = "extracted"
  /\ bean_assessments' =
       Append(bean_assessments,
              calculate_final_quality(base_score, source_category, features))
  /\ pc' = "graded"
  /\ UNCHANGED <<cv, features, report, calls>>
  /\ UNCHANGED nonGradingVars

GenerateBatchReport ==
  /\ pc \in {"idle", "graded"}
  /\ report' = generate_batch_report(bean_assessments)
  /\ pc' = "reported"
  /\ UNCHANGED <<cv, features, bean_assessments, calls>>
  /\ UNCHANGED nonGradingVars

Next ==
  \/ \E c \in Contours, m \in EdgeMaps : ExtractAllFeatures(c[1], c[2], m[1], m[2])
  \/ \E b \in Beans : CalculateFinalQuality(b[1], b[2])
  \/ GenerateBatchReport

\* one image: every bean is measured, then graded; then the lot is reported
Spec == Init /\ [][Next]_vars

(***************************************************************************)
(* calculate_final_quality on any features dict and any base score         *)
(***************************************************************************)
Circularities == {Dec(5, 1), Dec(69, 2), Dec(7, 1), Dec(95, 2)}
CrackFlags == {PyBool(TRUE), PyBool(FALSE), PyStr(TRUE), PyStr(FALSE)}
FeatureDicts ==
  {<<>>}
    \cup {[circularity |-> c] : c \in Circularities}
    \cup {[has_cracks |-> h] : h \in CrackFlags}
    \cup {[circularity |-> c, has_cracks |-> h] : c \in Circularities, h \in CrackFlags}
GradedBeans ==
  {<<IntToF(0), "Dark">>, <<Dec(40, 2), "Dark">>, <<Dec(657, 3), "Medium">>,
   <<Dec(85, 2), "Medium">>, <<Dec(95, 2), "Light">>, <<IntToF(1), "Light">>}

InitGrade ==
  /\ pc = "extracted"
  /\ cv = None
  /\ features \in FeatureDicts
  /\ bean_assessments = <<>>
  /\ report = None
  /\ calls = <<>>
  /\ cnn_model = None
  /\ predictions = <<>>
  /\ contours = <<>>
  /\ beans_data = None
  /\ image_bytes = <<>>
  /\ image = Unset
  /\ session = None
  /\ next_bean = 1
  /\ singleton = Unset
  /\ tpc = [t \in Threads |-> "idle"]
  /\ constructing = [t \in Threads |-> None]
  /\ served = [t \in Threads |-> 0]
  /\ received = {}
  /\ constructed = 0
  /\ issued = <<>>
  /\ verified = None
  /\ certs = <<>>
  /\ wpc = [w \in Workers |-> "idle"]
  /\ wreq = [w \in Workers |-> None]
  /\ response = None
  /\ now = 0
  /\ lots = <<>>
  /\ gpc = [w \in Workers |-> "idle"]
  /\ sequential = [w \in Workers |-> 0]
  /\ exchanges = <<>>
  /\ load_at = "idle"
  /\ load_env = None
  /\ load_trace = <<>>
  /\ loaded = Unset
  /\ aggregate = None
  /\ method_calls = <<>>
  /\ utcnow = 0
  /\ permuted = None

NextGrade == \E b \in GradedBeans : CalculateFinalQuality(b[1], b[2])

SpecGrade == InitGrade /\ [][NextGrade]_vars

(***************************************************************************)
(* _determine_quality_category on any score                                *)
(***************************************************************************)
Scores ==
  {FNeg(Dec(1, 1)), IntToF(0), Dec(3, 1), Dec(59, 2), Dec(6, 1), Dec(65, 2),
   Dec(7, 1), Dec(79, 2), Dec(8, 1), Dec(8999, 4), Dec(9, 1), Dec(95, 2),
   IntToF(1)}

DetermineQualityCategory(final_score) ==
  /\ Len(calls) < MaxCalls
  /\ calls' = Append(calls, <<final_score, _determine_quality_category(final_score)>>)
  /\ UNCHANGED <<pc, cv, features, bean_assessments, report>>
  /\ UNCHANGED nonGradingVars

NextCategory == \E s \in Scores : DetermineQualityCategory(s)

SpecCategory == Init /\ [][NextCategory]_vars

(***************************************************************************)
(* A lot graded bean by bean by a caller that supplies the features dict   *)
(* itself, then reported                                                   *)
(***************************************************************************)
MaxLot == 3

\* base scores whose fusion with shape score 1.0 is 0.95, 0.85, 0.65, 0.58
LotBeans ==
  {<<Dec(929, 3), "Light">>, <<Dec(786, 3), "Medium">>, <<Dec(5, 1), "Dark">>,
   <<Dec(40, 2), "Dark">>}
LotFeatures == {[circularity |-> Dec(95, 2), has_cracks |-> PyBool(FALSE)]}

GradeBean(base_score, source_category, f) ==
  /\ pc \in {"idle", "graded"}
  /\ Len(bean_assessments) < MaxLot
  /\ features' = f
  /\ bean_assessments' =
       Append(bean_assessments, calculate_final_quality(base_score, source_category, f))
  /\ pc' = "graded"
  /\ UNCHANGED <<cv, report, calls>>
  /\ UNCHANGED nonGradingVars

NextLot ==
  \/ \E b \in LotBeans, f \in LotFeatures : GradeBean(b[1], b[2], f)
  \/ GenerateBatchReport

SpecLot == Init /\ [][NextLot]_vars

(***************************************************************************)
(* predict_color_percentages on a service whose model did or did not load  *)
(***************************************************************************)
MaxPredictions == 2

\* a float32 score k / 4096
Raw(k) == FDiv(IntToF(k), IntToF(4096))
RawVector(a, b, c, d) == <<Raw(a), Raw(b), Raw(c), Raw(d)>>
\* softmax-like vectors, vectors of small scores, the zero vector, and a
\* vector with a class missing
RawPredictions ==
  {RawVector(4096, 0, 0, 0), RawVector(1024, 1024, 1024, 1024),
   RawVector(2867, 819, 409, 1), RawVector(1, 1, 1, 4093),
   RawVector(0, 1365, 1365, 1366), RawVector(3, 2, 0, 0),
   RawVector(1, 0, 0, 0), RawVector(2, 2, 2, 2), RawVector(0, 0, 0, 0),
   <<Raw(1024), Raw(1024), Raw(2048)>>}
Inferences ==
  {[throws |-> TRUE]}
    \cup {[throws |-> FALSE, raw_predictions |-> r] : r \in RawPredictions}

InitPredict ==
  /\ pc = "idle"
  /\ cv = None
  /\ features = None
  /\ bean_assessments = <<>>
  /\ report = None
  /\ calls = <<>>
  /\ cnn_model \in {None, [t |-> "Model"]}
  /\ predictions = <<>>
  /\ contours = <<>>
  /\ beans_data = None
  /\ image_bytes = <<>>
  /\ image = Unset
  /\ session = None
  /\ next_bean = 1
  /\ singleton = Unset
  /\ tpc = [t \in Threads |-> "idle"]
  /\ constructing = [t \in Threads |-> None]
  /\ served = [t \in Threads |-> 0]
  /\ received = {}
  /\ constructed = 0
  /\ issued = <<>>
  /\ verified = None
  /\ certs = <<>>
  /\ wpc = [w \in Workers |-> "idle"]
  /\ wreq = [w \in Workers |-> None]
  /\ response = None
  /\ now = 0
  /\ lots = <<>>
  /\ gpc = [w \in Workers |-> "idle"]
  /\ sequential = [w \in Workers |-> 0]
  /\ exchanges = <<>>
  /\ load_at = "idle"
  /\ load_env = None
  /\ load_trace = <<>>
  /\ loaded = Unset
  /\ aggregate = None
  /\ method_calls = <<>>
  /\ utcnow = 0
  /\ permuted = None

PredictColorPercentages(inference) ==
  /\ Len(predictions) < MaxPredictions
  /\ predictions' =
       Append(predictions,
              <<inference, predict_color_percentages(cnn_model, inference, CNN_COLOR_CLASSES)>>)
  /\ UNCHANGED cnn_model
  /\ UNCHANGED nonPredictorVars

NextPredict == \E inference \in Inferences : PredictColorPercentages(inference)

SpecPredict == InitPredict /\ [][NextPredict]_vars

(***************************************************************************)
(* segment_beans on any image                                              *)
(***************************************************************************)
MaxContours == 3

\* contour areas: cv2.contourArea yields multiples of 0.5
Areas == {IntToF(499), IntToF(500), Dec(5005, 1), IntToF(501), IntToF(600)}
FoundContours ==
  UNION {{[i \in 1..n |-> [id |-> i, area |-> a[i]]] : a \in [1..n -> Areas]} :
           n \in 0..MaxContours}

SegmentBeans(cs) ==
  /\ beans_data = None
  /\ contours' = cs
  /\ beans_data' = segment_beans(cs)
  /\ UNCHANGED nonSegmentVars

NextSegment == \E cs \in FoundContours : SegmentBeans(cs)

SpecSegment == Init /\ [][NextSegment]_vars

(***************************************************************************)
(* extract_all_features on any contour and crop, a single point and an     *)
(* empty crop included                                                     *)
(***************************************************************************)
AnyContours ==
  {<<IntToF(0), IntToF(0)>>, <<IntToF(501), IntToF(90)>>,
   <<IntToF(501), IntToF(120)>>, <<IntToF(600), IntToF(100)>>,
   <<IntToF(600), IntToF(120)>>, <<IntToF(600), IntToF(300)>>,
   <<IntToF(1000), IntToF(120)>>, <<IntToF(1000), IntToF(150)>>,
   <<Dec(5005, 1), Dec(905, 1)>>, <<IntToF(5000), IntToF(260)>>}
AnyEdgeMaps ==
  {<<0, 0>>, <<0, 1>>, <<1, 1>>, <<0, 100>>, <<5, 100>>, <<6, 100>>,
   <<50, 100>>, <<100, 100>>, <<37, 64>>, <<600, 900>>}

NextFeatures ==
  \E c \in AnyContours, m \in AnyEdgeMaps : ExtractAllFeatures(c[1], c[2], m[1], m[2])

SpecFeatures == Init /\ [][NextFeatures]_vars

(***************************************************************************)
(* load_image_from_bytes on any bytes                                      *)
(***************************************************************************)
MaxBytes == 4

ByteValues == {0, 137, 255}
ByteStrings == UNION {[1..n -> ByteValues] : n \in 0..MaxBytes}

LoadImageFromBytes(bytes) ==
  /\ image = Unset
  /\ image_bytes' = bytes
  /\ image' = load_image_from_bytes(bytes)
  /\ UNCHANGED nonImageVars

NextLoad == \E bytes \in ByteStrings : LoadImageFromBytes(bytes)

SpecLoad == Init /\ [][NextLoad]_vars

(***************************************************************************)
(* One run of the pipeline on a decoded image                              *)
(***************************************************************************)
SmallContour(id) == [id |-> id, area |-> IntToF(400), perimeter |-> IntToF(80)]
RoundContour(id) == [id |-> id, area |-> IntToF(600), perimeter |-> IntToF(100)]
LongContour(id) == [id |-> id, area |-> IntToF(600), perimeter |-> IntToF(120)]
\* what findContours yields on the image
RunContours ==
  {<<>>, <<SmallContour(1)>>, <<RoundContour(1)>>,
   <<SmallContour(1), RoundContour(2)>>, <<RoundContour(1), LongContour(2)>>,
   <<RoundContour(1), SmallContour(2), LongContour(3)>>}
RunEdgeMaps == {<<0, 100>>, <<6, 100>>}
RunInferences ==
  {[throws |-> TRUE],
   [throws |-> FALSE, raw_predictions |-> RawVector(3277, 410, 409, 0)],
   [throws |-> FALSE, raw_predictions |-> RawVector(0, 410, 3277, 409)]}
Now == [t |-> "datetime"]

InitRun ==
  /\ pc = "idle"
  /\ cv = None
  /\ features = None
  /\ bean_assessments = <<>>
  /\ report = None
  /\ calls = <<>>
  /\ cnn_model \in {None, [t |-> "Model"]}
  /\ predictions = <<>>
  /\ contours = <<>>
  /\ beans_data = None
  /\ image_bytes = <<>>
  /\ image = Unset
  /\ session = None
  /\ next_bean = 1
  /\ singleton = Unset
  /\ tpc = [t \in Threads |-> "idle"]
  /\ constructing = [t \in Threads |-> None]
  /\ served = [t \in Threads |-> 0]
  /\ received = {}
  /\ constructed = 0
  /\ issued = <<>>
  /\ verified = None
  /\ certs = <<>>
  /\ wpc = [w \in Workers |-> "idle"]
  /\ wreq = [w \in Workers |-> None]
  /\ response = None
  /\ now = 0
  /\ lots = <<>>
  /\ gpc = [w \in Workers |-> "idle"]
  /\ sequential = [w \in Workers |-> 0]
  /\ exchanges = <<>>
  /\ load_at = "idle"
  /\ load_env = None
  /\ load_trace = <<>>
  /\ loaded = Unset
  /\ aggregate = None
  /\ method_calls = <<>>
  /\ utcnow = 0
  /\ permuted = None

\* segmentation, and the failure of a run without beans
StartClassificationSession(cs) ==
  /\ pc = "idle"
  /\ session = None
  /\ contours' = cs
  /\ beans_data' = segment_beans(cs)
  /\ IF beans_data'.items = <<>>
     THEN session' = fail(NewSession, "no beans detected", Now) /\ pc' = "done"
     ELSE session' = NewSession /\ pc' = "beans"
  /\ next_bean' = 1
  /\ UNCHANGED <<cv, features, bean_assessments, report, calls, predictorVars, imageVars,
                 nonRunVars>>

\* one region: features, colour, grade
ProcessBean(edge_pixels, size, inference) ==
  /\ pc = "beans"
  /\ next_bean <= Len(beans_data.items)
  /\ \E r \in {extract_all_features(beans_data.items[next_bean].contour.area,
                                    beans_data.items[next_bean].contour.perimeter,
                                    edge_pixels, size)} :
     \E color \in {predict_color_percentages(cnn_model, inference, CNN_COLOR_CLASSES)} :
       /\ cv' = r.locals
       /\ features' = r.features
       /\ predictions' = Append(predictions, <<inference, color>>)
       /\ bean_assessments' = Append(bean_assessments, GradeWith(BaseOf(color), r.features))
  /\ next_bean' = next_bean + 1
  /\ UNCHANGED <<pc, report, calls, cnn_model, session, segmentVars, imageVars,
                 nonRunVars>>

\* aggregation and the end of the run
CompleteSession(time_taken) ==
  /\ pc = "beans"
  /\ next_bean > Len(beans_data.items)
  /\ report' = generate_batch_report(bean_assessments)
  /\ session' = complete(session, report', time_taken, Now)
  /\ pc' = "done"
  /\ UNCHANGED <<cv, features, bean_assessments, calls, next_bean, predictorVars,
                 segmentVars, imageVars, nonRunVars>>

NextRun ==
  \/ \E cs \in RunContours : StartClassificationSession(cs)
  \/ \E m \in RunEdgeMaps, inference \in RunInferences : ProcessBean(m[1], m[2], inference)
  \/ CompleteSession(IntToF(2))

SpecRun == InitRun /\ [][NextRun]_vars

(***************************************************************************)
(* get_ml_predictor, a sync dependency: each request resolves it in a      *)
(* threadpool thread.  The hasattr test, the construction of the service   *)
(* (which loads the model) and the store of the attribute are separate     *)
(* steps of a thread.                                                      *)
(***************************************************************************)
\* MLPredictorService(model_path, CNN_COLOR_CLASSES): a new object each time
MLPredictorService(n) == [t |-> "MLPredictorService", id |-> n]

\* a request arrives and its dependency is resolved on thread t
ResolveDependency(t) ==
  /\ tpc[t] = "idle"
  /\ served[t] < MaxRequests
  /\ tpc' = [tpc EXCEPT ![t] = "hasattr"]
  /\ UNCHANGED <<singleton, constructing, served, received, constructed, nonSingletonVars>>

\* if not hasattr(get_ml_predictor, "singleton")
TestSingleton(t) ==
  /\ tpc[t] = "hasattr"
  /\ tpc' = [tpc EXCEPT ![t] = IF singleton = Unset THEN "construct" ELSE "return"]
  /\ UNCHANGED <<singleton, constructing, served, received, constructed, nonSingletonVars>>

\* MLPredictorService(...): __init__ runs _load_model
ConstructPredictor(t) ==
  /\ tpc[t] = "construct"
  /\ constructed' = constructed + 1
  /\ constructing' = [constructing EXCEPT ![t] = MLPredictorService(constructed + 1)]
  /\ tpc' = [tpc EXCEPT ![t] = "store"]
  /\ UNCHANGED <<singleton, served, received, nonSingletonVars>>

\* get_ml_predictor.singleton = <the new instance>
StoreSingleton(t) ==
  /\ tpc[t] = "store"
  /\ singleton' = constructing[t]
  /\ constructing' = [constructing EXCEPT ![t] = None]
  /\ tpc' = [tpc EXCEPT ![t] = "return"]
  /\ UNCHANGED <<served, received, constructed, nonSingletonVars>>

\* return get_ml_predictor.singleton
ReturnSingleton(t) ==
  /\ tpc[t] = "return"
  /\ received' = received \cup {singleton}
  /\ served' = [served EXCEPT ![t] = served[t] + 1]
  /\ tpc' = [tpc EXCEPT ![t] = "idle"]
  /\ UNCHANGED <<singleton, constructing, constructed, nonSingletonVars>>

NextSingleton ==
  \E t \in Threads :
    \/ ResolveDependency(t)
    \/ TestSingleton(t)
    \/ ConstructPredictor(t)
    \/ StoreSingleton(t)
    \/ ReturnSingleton(t)

SpecSingleton == Init /\ [][NextSingleton]_vars

(***************************************************************************)
(* Certification hashes of classification data                             *)
(***************************************************************************)
SessionItems ==
  << <<"session_id", [t |-> "str", v |-> "SESS-1"]>>,
     <<"coffee_lot_id", [t |-> "int", v |-> 45]>>,
     <<"final_score", [t |-> "float", v |-> "0.865"]>>,
     <<"final_category", [t |-> "str", v |-> "Specialty"]>>,
     <<"total_grains_analyzed", [t |-> "int", v |-> 12]>>,
     <<"timestamp", [t |-> "str", v |-> "2025-11-28T10:00:00Z"]>> >>
TimeItem == <<"processing_time_seconds", [t |-> "float", v |-> "2.5"]>>
Reversed(items) == [i \in 1..Len(items) |-> items[Len(items) + 1 - i]]
\* items with the value of the key at position i replaced
WithValue(items, i, x) == [items EXCEPT ![i] = <<items[i][1], x>>]
ExtraItems ==
  << <<"lot_owner", [t |-> "str", v |-> "Ana"]>>,
     <<"processing_time", [t |-> "float", v |-> "9.9"]>> >>

ClassificationData ==
  {PyDict(items) : items \in
     {SessionItems \o <<TimeItem>>,
      Reversed(SessionItems \o <<TimeItem>>),
      ExtraItems \o SessionItems \o <<TimeItem>>,
      WithValue(SessionItems, 2, [t |-> "str", v |-> "45"]) \o <<TimeItem>>,
      SessionItems,
      SessionItems \o << <<"processing_time_seconds", None>> >>,
      <<>>,
      ExtraItems}}

GenerateCertificationHash(classification_data) ==
  /\ Len(issued) < MaxIssued
  /\ issued' = Append(issued, [data |-> classification_data,
                               hash |-> generate_certification_hash(classification_data)])
  /\ UNCHANGED <<verified, nonHashVars>>

\* verify_hash of some data against the i-th hash generated
VerifyHash(original_data, i) ==
  /\ verified' = [data |-> original_data, of |-> i, provided_hash |-> issued[i].hash,
                  result |-> verify_hash(original_data, issued[i].hash)]
  /\ UNCHANGED <<issued, nonHashVars>>

NextHash ==
  \/ \E d \in ClassificationData : GenerateCertificationHash(d)
  \/ \E d \in ClassificationData, i \in 1..Len(issued) : VerifyHash(d, i)

SpecHash == Init /\ [][NextHash]_vars

(***************************************************************************)
(* Certificates: create, revoke and verify requests of one server process, *)
(* whose endpoints run each handler to its end before the next request.    *)
(***************************************************************************)
CompletedAt == [t |-> "str", v |-> "2025-11-28T10:00:00Z"]
\* the metadata of a session as the classification context names its fields
ServiceMetadata ==
  PyDict(<< <<"session_id_vo", [t |-> "str", v |-> "SESS-1"]>>,
            <<"completed_at", CompletedAt>>,
            <<"processing_time_seconds", [t |-> "float", v |-> "2.5"]>> >>)
\* the example of the command's schema
ExampleMetadata ==
  PyDict(<< <<"session_id", [t |-> "str", v |-> "SESS-1"]>>,
            <<"final_score", [t |-> "float", v |-> "0.865"]>>,
            <<"final_category", [t |-> "str", v |-> "Specialty"]>>,
            <<"timestamp", CompletedAt>> >>)
\* metadata that carries the seven hashed fields under both namings
MirrorMetadata(final_score) ==
  PyDict(<< <<"session_id", [t |-> "str", v |-> "SESS-1"]>>,
            <<"session_id_vo", [t |-> "str", v |-> "SESS-1"]>>,
            <<"coffee_lot_id", [t |-> "int", v |-> 45]>>,
            <<"final_score", [t |-> "float", v |-> final_score]>>,
            <<"final_category", [t |-> "str", v |-> "Specialty"]>>,
            <<"total_grains_analyzed", [t |-> "int", v |-> 12]>>,
            <<"timestamp", CompletedAt>>,
            <<"completed_at", CompletedAt>>,
            <<"processing_time_seconds", [t |-> "float", v |-> "2.5"]>> >>)

CreateCertificationCommand(classification_session_id, quality_score, classification_metadata, expires_in_days) ==
  [classification_session_id |-> classification_session_id,
   coffee_lot_id |-> 45,
   quality_score |-> [t |-> "float", v |-> quality_score],
   quality_category |-> "Specialty",
   total_grains_analyzed |-> 12,
   classification_metadata |-> classification_metadata,
   expires_in_days |-> expires_in_days]

Commands ==
  {CreateCertificationCommand(1, "86.5", ServiceMetadata, None),
   CreateCertificationCommand(1, "86.5", ExampleMetadata, None),
   CreateCertificationCommand(1, "86.5", MirrorMetadata("0.865"), None),
   CreateCertificationCommand(2, "86.5", MirrorMetadata("0.865"), [t |-> "int", v |-> 1]),
   CreateCertificationCommand(2, "35.35", MirrorMetadata("0.3535"), None)}

CertificationIds == {"CERT-1", "CERT-2", "CERT-9"}
Reasons == {"quality dispute raised", "issued by mistake"}
UnknownHash == sha256("{}")

\* POST /api/v1/certifications
CreateCertification(created) ==
  /\ Len(certs) < MaxCerts
  /\ certs' = created.table
  /\ response' = created.response
  /\ UNCHANGED <<wpc, wreq, now, nonCertVars>>

\* PATCH /{certification_id}/revoke
RevokeCertification(revoked) ==
  /\ certs' = revoked.table
  /\ response' = revoked.response
  /\ UNCHANGED <<wpc, wreq, now, nonCertVars>>

\* GET /verify/hash/{certification_hash}
VerifyCertificationByHash(certification_hash) ==
  /\ response' = [status_code |-> 200,
                  body |-> handle_verify_by_hash(certs, certification_hash, now,
                                                 find_by_hash(certs, certification_hash))]
  /\ UNCHANGED <<certs, wpc, wreq, now, nonCertVars>>

\* CertificationRecord.verify on a stored certificate
VerifyCertification(i) ==
  /\ certs[i].status # "VERIFIED"
  /\ certs' = [certs EXCEPT ![i] = verify(certs[i])]
  /\ UNCHANGED <<wpc, wreq, response, now, nonCertVars>>

Tick ==
  /\ now < MaxNow
  /\ now' = now + 1
  /\ UNCHANGED <<certs, wpc, wreq, response, nonCertVars>>

NextCert ==
  \/ \E command \in Commands :
       CreateCertification(handle_create_certification(certs, command, now))
  \/ \E certification_id \in CertificationIds, reason \in Reasons :
       RevokeCertification(handle_revoke_certification(
         certs, certification_id, reason, find_by_certification_id(certs, certification_id)))
  \/ \E certification_hash \in {certs[i].certification_hash : i \in DOMAIN certs} \cup {UnknownHash} :
       VerifyCertificationByHash(certification_hash)
  \/ \E i \in DOMAIN certs : VerifyCertification(i)
  \/ Tick

SpecCert == Init /\ [][NextCert]_vars

(***************************************************************************)
(* Create requests handled by several server processes over one database:  *)
(* a request is three steps of its process, one per database access (the   *)
(* query by session, the query by hash, the commit).                       *)
(***************************************************************************)
InFlight == Cardinality({w \in Workers : wpc[w] # "idle"})

\* the query by session
CheckExisting(w, command) ==
  /\ wpc[w] = "idle"
  /\ Len(certs) + InFlight < MaxCerts
  /\ IF find_by_classification_session(certs, command.classification_session_id) # 0
     THEN /\ response' = AlreadyExists(command.classification_session_id)
          /\ UNCHANGED <<wpc, wreq>>
     ELSE /\ wpc' = [wpc EXCEPT ![w] = "checked"]
          /\ wreq' = [wreq EXCEPT ![w] = [command |-> command]]
          /\ UNCHANGED response
  /\ UNCHANGED <<certs, now, nonCertVars>>

\* the hash and the query by hash
ComputeHash(w, certification_hash) ==
  /\ wpc[w] = "checked"
  /\ IF find_by_hash(certs, certification_hash) # 0
     THEN /\ response' = HashCollision
          /\ wpc' = [wpc EXCEPT ![w] = "idle"]
          /\ wreq' = [wreq EXCEPT ![w] = None]
     ELSE /\ wpc' = [wpc EXCEPT ![w] = "hashed"]
          /\ wreq' = [wreq EXCEPT ![w] = [command |-> wreq[w].command,
                                          certification_hash |-> certification_hash]]
          /\ UNCHANGED response
  /\ UNCHANGED <<certs, now, nonCertVars>>

\* the aggregate and repository.save
SaveCertification(w, saved) ==
  /\ wpc[w] = "hashed"
  /\ certs' = saved.table
  /\ response' = saved.response
  /\ wpc' = [wpc EXCEPT ![w] = "idle"]
  /\ wreq' = [wreq EXCEPT ![w] = None]
  /\ UNCHANGED <<now, nonCertVars>>

NextCreateRace ==
  \/ \E w \in Workers, command \in Commands : CheckExisting(w, command)
  \/ \E w \in Workers :
       /\ wpc[w] = "checked"
       /\ ComputeHash(w, generate_certification_hash(HashData(wreq[w].command, now)))
  \/ \E w \in Workers :
       /\ wpc[w] = "hashed"
       /\ SaveCertification(w, SaveNew(certs, NewCertification(wreq[w].command,
                                                               wreq[w].certification_hash,
                                                               Len(certs) + 1, now)))
  \/ Tick

SpecCreateRace == Init /\ [][NextCreateRace]_vars

(***************************************************************************)
(* generate_lot_number called by concurrent requests: the count query,     *)
(* each test of the uniqueness loop and the caller's insert of the lot are *)
(* separate database accesses.  Lots are also deleted.                     *)
(***************************************************************************)
\* SELECT COUNT(*) ... ; sequential = (lots_this_year or 0) + 1
CountLots(w) ==
  /\ gpc[w] = "idle"
  /\ Len(lots) + Cardinality({v \in Workers : gpc[v] # "idle"}) < MaxLots
  /\ sequential' = [sequential EXCEPT ![w] = Len(lots) + 1]
  /\ gpc' = [gpc EXCEPT ![w] = "while"]
  /\ UNCHANGED <<lots, nonLotVars>>

\* while self.repository.exists_by_lot_number(lot_number): sequential += 1
TestLotNumber(w) ==
  /\ gpc[w] = "while"
  /\ IF exists_by_lot_number(lots, LotNumber(current_year, sequential[w]))
     THEN sequential' = [sequential EXCEPT ![w] = sequential[w] + 1] /\ UNCHANGED gpc
     ELSE gpc' = [gpc EXCEPT ![w] = "return"] /\ UNCHANGED sequential
  /\ UNCHANGED <<lots, nonLotVars>>

\* return lot_number, and the caller stores a lot under it
SaveLot(w) ==
  /\ gpc[w] = "return"
  /\ lots' = Append(lots, LotNumber(current_year, sequential[w]))
  /\ gpc' = [gpc EXCEPT ![w] = "idle"]
  /\ UNCHANGED <<sequential, nonLotVars>>

\* a lot is deleted
DeleteLot(i) ==
  /\ lots' = [j \in 1..(Len(lots) - 1) |-> IF j < i THEN lots[j] ELSE lots[j + 1]]
  /\ UNCHANGED <<gpc, sequential, nonLotVars>>

NextLotNumber ==
  \/ \E w \in Workers : CountLots(w)
  \/ \E w \in Workers : TestLotNumber(w)
  \/ \E w \in Workers : SaveLot(w)
  \/ \E i \in DOMAIN lots : DeleteLot(i)

SpecLotNumber == Init /\ [][NextLotNumber]_vars

(***************************************************************************)
(* Requests to POST /session                                               *)
(***************************************************************************)
ContentTypes == {"image/jpeg", "image/png", "image/gif"}
ServiceOutcomes ==
  {[returned |-> fail(NewSession, "no beans detected", Now)],
   [returned |-> fail(NewSession, "invalid image", Now)],
   [returned |-> complete(NewSession, [total_beans_analyzed |-> 2, lot_quality |-> "Premium"],
                          IntToF(2), Now)],
   [raised |-> "ValueError", message |-> "Coffee lot 7 not found"],
   [raised |-> "RuntimeError", message |-> "upload failed"]}

StartAndProcessClassificationSession(content_type, outcome) ==
  /\ Len(exchanges) < MaxRequests
  /\ exchanges' = Append(exchanges,
       [content_type |-> content_type, outcome |-> outcome,
        response |-> start_and_process_classification_session(content_type, outcome)])
  /\ UNCHANGED nonEndpointVars

NextEndpoint ==
  \E content_type \in ContentTypes, outcome \in ServiceOutcomes :
    StartAndProcessClassificationSession(content_type, outcome)

SpecEndpoint == Init /\ [][NextEndpoint]_vars

(***************************************************************************)
(* One load of the model, statement by statement                           *)
(***************************************************************************)
LoadEnvironments ==
  [exists : BOOLEAN, local_load : {"ok", "raises"}, remove : {"ok", "raises"},
   url : {"", DefaultBlobUrl, "https://storage/ml-models/defect_detector.h5"},
   download : {"ok", "RequestException", "OSError"}, post_load : {"ok", "raises"}]

\* MLPredictorService.__init__ calls self._load_model()
StartLoad(env) ==
  /\ load_at = "idle"
  /\ load_env' = env
  /\ load_at' = "exists"
  /\ UNCHANGED <<load_trace, loaded, nonLoaderVars>>

\* the statement at load_at runs
StepLoad(next) ==
  /\ load_at \notin {"idle", "done"}
  /\ load_trace' = Append(load_trace, load_at)
  /\ load_at' = next.at
  /\ loaded' = IF next.at = "done" THEN next.returned ELSE loaded
  /\ UNCHANGED <<load_env, nonLoaderVars>>

NextLoadModel ==
  \/ \E env \in LoadEnvironments : StartLoad(env)
  \/ /\ load_at \notin {"idle", "done"}
     /\ StepLoad(_load_model(load_at, load_env))

SpecLoadModel == Init /\ [][NextLoadModel]_vars /\ WF_vars(NextLoadModel)

(***************************************************************************)
(* A ClassificationSession under any sequence of complete() and fail()     *)
(* calls; the reports come from generate_batch_report                      *)
(***************************************************************************)
MaxMethodCalls == 3

SessionAssessments ==
  <<calculate_final_quality(Dec(929, 3), "Light",
                            [circularity |-> Dec(95, 2), has_cracks |-> PyBool(FALSE)]),
    calculate_final_quality(Dec(5, 1), "Dark",
                            [circularity |-> Dec(95, 2), has_cracks |-> PyBool(FALSE)])>>
SessionLots == {<<>>, <<SessionAssessments[1]>>, SessionAssessments}
FailureReasons == {"no beans detected", "image could not be decoded"}
UtcNow == [t |-> "datetime", v |-> utcnow]

\* ClassificationSession(): the column defaults
ConstructSession ==
  /\ aggregate = None
  /\ aggregate' = NewSession
  /\ UNCHANGED <<method_calls, utcnow, nonAggregateVars>>

Complete(rep, time_taken) ==
  /\ aggregate # None
  /\ Len(method_calls) < MaxMethodCalls
  /\ aggregate' = complete(aggregate, rep, time_taken, UtcNow)
  /\ method_calls' = Append(method_calls, "complete")
  /\ UNCHANGED <<utcnow, nonAggregateVars>>

Fail(reason) ==
  /\ aggregate # None
  /\ Len(method_calls) < MaxMethodCalls
  /\ aggregate' = fail(aggregate, reason, UtcNow)
  /\ method_calls' = Append(method_calls, "fail")
  /\ UNCHANGED <<utcnow, nonAggregateVars>>

\* time passes between two calls
Elapse ==
  /\ utcnow < MaxNow
  /\ utcnow' = utcnow + 1
  /\ UNCHANGED <<aggregate, method_calls, nonAggregateVars>>

NextSession ==
  \/ ConstructSession
  \/ \E lot \in SessionLots : Complete(generate_batch_report(lot), IntToF(2))
  \/ \E reason \in FailureReasons : Fail(reason)
  \/ Elapse

SpecSession == Init /\ [][NextSession]_vars

(***************************************************************************)
(* The same lot reported in its own order and in another order             *)
(***************************************************************************)
\* Dark with low circularity and cracks (0.43), Medium with cracks (0.835)
OrderBeans ==
  {<<Dec(40, 2), "Dark", [circularity |-> Dec(5, 1), has_cracks |-> PyBool(TRUE)]>>,
   <<Dec(85, 2), "Medium", [circularity |-> Dec(95, 2), has_cracks |-> PyBool(TRUE)]>>}

Orders(n) == {order \in [1..n -> 1..n] : \A i, j \in 1..n : order[i] = order[j] => i = j}
Reordered(bean_list, order) == [i \in 1..Len(bean_list) |-> bean_list[order[i]]]

\* generate_batch_report on the same assessments in another order
GenerateBatchReportReordered(order, rep) ==
  /\ pc \in {"graded", "reported"}
  /\ permuted' = [order |-> order, report |-> rep]
  /\ UNCHANGED <<gradingVars, nonOrderVars>>

NextOrder ==
  \/ \E b \in OrderBeans : GradeBean(b[1], b[2], b[3])
  \/ GenerateBatchReport
  \/ \E order \in Orders(Len(bean_assessments)) :
       GenerateBatchReportReordered(
         order, generate_batch_report(Reordered(bean_assessments, order)))

SpecOrder == Init /\ [][NextOrder]_vars

(***************************************************************************)
(* Properties                                                              *)
(***************************************************************************)
\* the categories from best to worst, and the minimum score of each
CategoryOrder == <<"Specialty", "Premium", "A", "B", "C">>
MinimumScore == <<Dec(9, 1), Dec(8, 1), Dec(7, 1), Dec(6, 1), IntToF(0)>>
\* 1 for the best category
Rank(category) == CHOOSE k \in DOMAIN CategoryOrder : CategoryOrder[k] = category

\* s reaches the minimum of the k-th category and of none before it
FirstReached(s, k) ==
  /\ FGe(s, MinimumScore[k])
  /\ \A j \in 1..(k - 1) : FLt(s, MinimumScore[j])

\* C1: every call of _determine_quality_category returns one of the five
\* categories: the first in the order Specialty, Premium, A, B, C whose
\* minimum the score reaches (so 0.9 itself is Specialty), and C when the
\* score reaches none of them.
C1_FirstClearedCategory ==
  \A i \in DOMAIN calls :
    /\ \E k \in DOMAIN CategoryOrder : calls[i][2] = CategoryOrder[k]
    /\ \A k \in DOMAIN CategoryOrder :
         FirstReached(calls[i][1], k) => calls[i][2] = CategoryOrder[k]
    /\ (\A k \in DOMAIN CategoryOrder : FLt(calls[i][1], MinimumScore[k]))
         => calls[i][2] = "C"
    /\ calls[i][1] = Dec(9, 1) => calls[i][2] = "Specialty"

C1_Witness ==
  /\ \E i \in DOMAIN calls : calls[i] = <<Dec(9, 1), "Specialty">>
  /\ \E i \in DOMAIN calls : FLt(calls[i][1], IntToF(0)) /\ calls[i][2] = "C"

\* C6: of two calls of _determine_quality_category, the one with the higher
\* score never gets the lower category.
C6_Monotonic ==
  \A i \in DOMAIN calls : \A j \in DOMAIN calls :
    FGe(calls[j][1], calls[i][1]) => Rank(calls[j][2]) <= Rank(calls[i][2])

C6_Witness ==
  \E i \in DOMAIN calls : \E j \in DOMAIN calls :
    /\ FGt(calls[j][1], calls[i][1])
    /\ Rank(calls[j][2]) < Rank(calls[i][2])

\* final is the 3-decimal number N/1000, and N/1000 is a nearest one to
\* 0.7 * B/10000 + 0.3 * S/1000 (either neighbour on a tie)
IsRoundedFusion(final, N, B, S) ==
  /\ final = Dec(N, 3)
  /\ 100 * N - (7 * B + 30 * S) <= 50
  /\ (7 * B + 30 * S) - 100 * N <= 50

\* C2: in every assessment calculate_final_quality returns, final_score is
\* 0.7 * base_quality_score + 0.3 * shape_score of that assessment rounded to
\* 3 decimals; circularity 0.95, no cracks, base 0.95 gives 0.965, and
\* circularity 0.5, cracks, base 0.40 gives 0.43.
C2_FinalScoreIsRoundedFusion ==
  \A i \in DOMAIN bean_assessments :
    /\ IsRoundedFusion(bean_assessments[i].final_score,
                       Scaled(bean_assessments[i].final_score, 3),
                       Scaled(bean_assessments[i].base_quality_score, 4),
                       Scaled(bean_assessments[i].shape_score, 3))
    /\ (/\ features = [circularity |-> Dec(95, 2), has_cracks |-> PyBool(FALSE)]
        /\ bean_assessments[i].base_quality_score = Dec(95, 2))
         => bean_assessments[i].final_score = Dec(965, 3)
    /\ (/\ features = [circularity |-> Dec(5, 1), has_cracks |-> PyBool(TRUE)]
        /\ bean_assessments[i].base_quality_score = Dec(40, 2))
         => bean_assessments[i].final_score = Dec(43, 2)

C2_Witness ==
  /\ pc = "graded"
  /\ features = [circularity |-> Dec(5, 1), has_cracks |-> PyBool(TRUE)]
  /\ \E i \in DOMAIN bean_assessments :
       /\ bean_assessments[i].base_quality_score = Dec(40, 2)
       /\ bean_assessments[i].final_score = Dec(43, 2)

\* C3: in every assessment calculate_final_quality returns, quality_category
\* is the category of the threshold walk on the final_score reported in that
\* assessment.
C3_CategoryOfReportedScore ==
  \A i \in DOMAIN bean_assessments :
    \A k \in DOMAIN CategoryOrder :
      FirstReached(bean_assessments[i].final_score, k)
        => bean_assessments[i].quality_category = CategoryOrder[k]

\* C4: the shape score of a graded bean is in [0.0, 1.0], is one of 1.0,
\* 0.8, 0.7, 0.5 and so never below 0.5, and is 1.0 for a bean with
\* circularity >= 0.7 and no cracks.
C4_ShapeScoreValues ==
  \A i \in DOMAIN bean_assessments :
    /\ FGe(bean_assessments[i].shape_score, IntToF(0))
    /\ FGe(IntToF(1), bean_assessments[i].shape_score)
    /\ bean_assessments[i].shape_score \in {IntToF(1), Dec(8, 1), Dec(7, 1), Dec(5, 1)}
    /\ FGe(bean_assessments[i].shape_score, Dec(5, 1))
    /\ (/\ "circularity" \in DOMAIN features
        /\ FGe(features.circularity, Dec(7, 1))
        /\ ~Truthy(DictGet(features, "has_cracks", PyBool(FALSE))))
         => bean_assessments[i].shape_score = IntToF(1)

\* the bean graded last
LastBean == bean_assessments[Len(bean_assessments)]

\* C5: a bean measured by extract_all_features and then graded has the 0.2
\* crack penalty in its shape score exactly when its edge_density > 0.05,
\* and a bean with edge_density <= 0.05 and circularity >= 0.7 is graded
\* with shape_score 1.0.
C5_CrackPenaltyIffEdgeDensity ==
  (pc = "graded" /\ cv # None) =>
    /\ FGt(cv.edge_density, Dec(5, 2))
         <=> LastBean.shape_score \notin {IntToF(1), Dec(7, 1)}
    /\ (~FGt(cv.edge_density, Dec(5, 2)) /\ FGe(cv.circularity, Dec(7, 1)))
         => LastBean.shape_score = IntToF(1)

ReportFields ==
  {"total_beans_analyzed", "category_distribution", "average_quality_score",
   "lot_quality"}

\* C7: generate_batch_report on an empty list returns, without raising, a
\* dict with an 'error' key and none of the report fields, and no report
\* of a non-empty list has an 'error' key.
C7_EmptyListIsAnError ==
  pc = "reported" =>
    IF bean_assessments = <<>>
    THEN "error" \in DOMAIN report /\ DOMAIN report \cap (ReportFields \cup {"raised"}) = {}
    ELSE "error" \notin DOMAIN report /\ ReportFields \subseteq DOMAIN report

C7_Witness == pc = "reported" /\ bean_assessments = <<>> /\ "error" \in DOMAIN report

RECURSIVE SumOfCounts(_, _)
SumOfCounts(count, keys) ==
  IF keys = {} THEN 0
  ELSE SumOfCounts(count, keys \ {CHOOSE k \in keys : TRUE})
         + count[CHOOSE k \in keys : TRUE]

\* C8: the report of N >= 1 assessments has total_beans_analyzed = N and a
\* category_distribution whose counts sum to N.
C8_CountsSumToTotal ==
  (pc = "reported" /\ Len(bean_assessments) >= 1) =>
    /\ report.total_beans_analyzed = Len(bean_assessments)
    /\ SumOfCounts(report.category_distribution, DOMAIN report.category_distribution)
         = Len(bean_assessments)

C8_Witness ==
  /\ pc = "reported"
  /\ Len(bean_assessments) = MaxBeans
  /\ report.total_beans_analyzed = MaxBeans
  /\ \E c \in DOMAIN report.category_distribution :
       report.category_distribution[c] = MaxBeans

\* C9: in every report that is not the error result, category_distribution
\* has exactly the keys Specialty, Premium, A, B, C, each with a count >= 0
\* that is the number of assessments of that quality_category.
C9_DistributionCountsEachCategory ==
  (pc = "reported" /\ "error" \notin DOMAIN report) =>
    /\ DOMAIN report.category_distribution = {"Specialty", "Premium", "A", "B", "C"}
    /\ \A c \in DOMAIN report.category_distribution :
         /\ report.category_distribution[c] >= 0
         /\ report.category_distribution[c] =
              Cardinality({i \in DOMAIN bean_assessments :
                             bean_assessments[i].quality_category = c})

C9_Witness ==
  /\ pc = "reported"
  /\ "error" \notin DOMAIN report
  /\ report.category_distribution["Specialty"] = 1
  /\ report.category_distribution["Premium"] = 1
  /\ report.category_distribution["A"] = 0

RECURSIVE SumOfThousandths(_, _)
\* the final_score values of the first n beans, in thousandths, added up
SumOfThousandths(beans, n) ==
  IF n = 0 THEN 0 ELSE SumOfThousandths(beans, n - 1) + Scaled(beans[n].final_score, 3)

\* avg is the 3-decimal number N/1000, and N/1000 is a nearest one to T/(1000 n)
IsRoundedMean(avg, N, T, n) ==
  /\ avg = Dec(N, 3)
  /\ 2 * (n * N - T) <= n
  /\ 2 * (T - n * N) <= n

\* C10: in every report that is not the error result, average_quality_score
\* is the mean of the beans' final_score rounded to 3 decimals, and
\* lot_quality is the category of the threshold walk on that reported
\* average.
C10_LotQualityOfReportedAverage ==
  (pc = "reported" /\ "error" \notin DOMAIN report) =>
    /\ IsRoundedMean(report.average_quality_score,
                     Scaled(report.average_quality_score, 3),
                     SumOfThousandths(bean_assessments, Len(bean_assessments)),
                     Len(bean_assessments))
    /\ \A k \in DOMAIN CategoryOrder :
         FirstReached(report.average_quality_score, k)
           => report.lot_quality = CategoryOrder[k]

\* the lot has three beans whose reported final scores are 0.95, 0.85 and
\* 0.65, in some order, and has been reported
IsScenarioLot ==
  /\ pc = "reported"
  /\ Len(bean_assessments) = 3
  /\ \E i \in 1..3 : \E j \in 1..3 : \E k \in 1..3 :
       /\ {i, j, k} = 1..3
       /\ bean_assessments[i].final_score = Dec(95, 2)
       /\ bean_assessments[j].final_score = Dec(85, 2)
       /\ bean_assessments[k].final_score = Dec(65, 2)

\* C11 as stated: the report of a lot of three beans with final scores
\* 0.95, 0.85 and 0.65 has average_quality_score 0.817, lot_quality Premium
\* and category_distribution {Specialty:1, Premium:0, A:1, B:0, C:0}.
C11_ScenarioAsStated ==
  IsScenarioLot =>
    /\ report.average_quality_score = Dec(817, 3)
    /\ report.lot_quality = "Premium"
    /\ report.category_distribution =
         [Specialty |-> 1, Premium |-> 0, A |-> 1, B |-> 0, C |-> 0]

\* C11 amended: the report of that lot has average_quality_score 0.817,
\* lot_quality Premium and category_distribution {Specialty:1, Premium:1,
\* A:0, B:1, C:0}: 0.85 is Premium and 0.65 is B.
C11_ScenarioLot ==
  IsScenarioLot =>
    /\ report.average_quality_score = Dec(817, 3)
    /\ report.lot_quality = "Premium"
    /\ report.category_distribution =
         [Specialty |-> 1, Premium |-> 1, A |-> 0, B |-> 1, C |-> 0]

C11_Witness == IsScenarioLot /\ report.total_beans_analyzed = 3

\* |x - 100| <= 1e-6
IsHundred(x) ==
  /\ FGe(x, FSub(IntToF(100), Dec(1, 6)))
  /\ FGe(FAdd(IntToF(100), Dec(1, 6)), x)

\* C12: whenever predict_color_percentages returns a mapping and some raw
\* class score is nonzero, every returned percentage is in [0, 100] and the
\* percentages sum to 100 within 1e-6.
C12_PercentagesSumTo100 ==
  \A n \in DOMAIN predictions :
    (/\ predictions[n][2].t = "dict"
     /\ \E i \in DOMAIN CNN_COLOR_CLASSES : ~IsZero(predictions[n][1].raw_predictions[i]))
      => /\ \A i \in DOMAIN predictions[n][2].items :
              /\ FGe(predictions[n][2].items[i][2], FZero)
              /\ FGe(IntToF(100), predictions[n][2].items[i][2])
         /\ IsHundred(SumValues(predictions[n][2].items, Len(predictions[n][2].items)))

\* an exception inside the try block: inference throws, or the vector is
\* too short for the class list
ThrowsInside(inference) ==
  inference.throws \/ Len(inference.raw_predictions) < Len(CNN_COLOR_CLASSES)

\* C13: no call of predict_color_percentages raises; it returns None when no
\* model is loaded and when inference throws, and otherwise a mapping with
\* one entry per colour class in the order Dark, Green, Light, Medium.
C13_NoneOrOneEntryPerClass ==
  \A n \in DOMAIN predictions :
    IF cnn_model = None \/ ThrowsInside(predictions[n][1])
    THEN predictions[n][2] = None
    ELSE /\ predictions[n][2].t = "dict"
         /\ [i \in DOMAIN predictions[n][2].items |-> predictions[n][2].items[i][1]]
              = <<"Dark", "Green", "Light", "Medium">>

C13_Witness ==
  /\ cnn_model # None
  /\ \E n \in DOMAIN predictions : predictions[n][1].throws /\ predictions[n][2] = None
  /\ \E n \in DOMAIN predictions : predictions[n][2].t = "dict"

\* the contours of area above 500, by position
Kept == {i \in DOMAIN contours : FGt(contours[i].area, IntToF(500))}
\* the position of the j-th of them
KeptAt(j) == CHOOSE i \in Kept : Cardinality({k \in Kept : k <= i}) = j

\* C14: segment_beans returns one region per contour of area above 500, in
\* the order of the contours, each the contour with the crop to its
\* bounding rectangle; a contour of area 500 is left out and one of area
\* 501 is kept, and with no such contour the result is the empty list.
C14_OneRegionPerLargeContour ==
  beans_data # None =>
    /\ beans_data.t = "list"
    /\ Len(beans_data.items) = Cardinality(Kept)
    /\ \A j \in DOMAIN beans_data.items :
         /\ beans_data.items[j].contour = contours[KeptAt(j)]
         /\ beans_data.items[j].image = [crop_of |-> contours[KeptAt(j)].id]
    /\ \A i \in DOMAIN contours :
         /\ contours[i].area = IntToF(500)
              => \A j \in DOMAIN beans_data.items : beans_data.items[j].contour # contours[i]
         /\ contours[i].area = IntToF(501)
              => \E j \in DOMAIN beans_data.items : beans_data.items[j].contour = contours[i]
    /\ Kept = {} => beans_data.items = <<>>

C14_Witness ==
  /\ beans_data # None
  /\ Len(contours) = 3
  /\ contours[1].area = IntToF(501)
  /\ contours[2].area = IntToF(500)
  /\ contours[3].area = IntToF(600)
  /\ Len(beans_data.items) = 2

\* x is a number, not an exception
IsFloat(x) == DOMAIN x = {"sgn", "m", "e"}

\* C15: extract_all_features divides by zero for no contour and no crop:
\* circularity is 0 when the perimeter is 0 and 4 * pi * area / perimeter^2
\* otherwise, and edge_density is 0 when the crop has no pixels and
\* otherwise the ratio of the edge pixels, which is in [0, 1].
C15_NoDivisionByZero ==
  cv # None =>
    /\ IsFloat(cv.circularity)
    /\ IF IsZero(features.perimeter) THEN IsZero(cv.circularity)
       ELSE cv.circularity =
              FDiv(FMul(FMul(IntToF(4), NP_PI), features.area),
                   FMul(features.perimeter, features.perimeter))
    /\ IsFloat(cv.edge_density)
    /\ IF cv.edges.size = 0 THEN IsZero(cv.edge_density)
       ELSE /\ cv.edge_density = FDiv(IntToF(cv.edges.sum), IntToF(255 * cv.edges.size))
            /\ FGe(cv.edge_density, FZero)
            /\ FGe(IntToF(1), cv.edge_density)

C15_Witness ==
  /\ cv # None
  /\ IsZero(features.perimeter)
  /\ cv.edges.size = 0
  /\ IsZero(cv.circularity)
  /\ IsZero(cv.edge_density)

\* C18: load_image_from_bytes raises for no bytes: it returns None for the
\* empty buffer and for bytes that do not decode, and the decoded image for
\* bytes that do.
C18_NoneOrImage ==
  image # Unset =>
    /\ "raised" \notin DOMAIN image
    /\ IF image_bytes # <<>> /\ image_bytes[1] \in MagicBytes /\ Len(image_bytes) >= 2
       THEN image = [t |-> "ndarray", decoded_from |-> image_bytes]
       ELSE image = None

C18_Witness == image = None /\ image_bytes = <<>>

C19_LoadedOnceAndShared ==
  /\ constructed <= 1
  /\ Cardinality(received) <= 1

\* the values .get() finds for the seven fields the hash is made of
SevenFields(d) ==
  [k \in {"session_id", "coffee_lot_id", "final_score", "final_category",
          "total_grains_analyzed", "timestamp", "processing_time_seconds"} |->
     PyGet(d, k)]

\* C20: two inputs that agree on the seven fields get the same hash, whatever
\* the order of their keys and whatever other keys they carry, and
\* verify_hash of an input against the hash generated from an input that
\* agrees with it on the seven fields (itself included) is true.
C20_HashOfSevenFields ==
  /\ \A i \in 1..Len(issued) : \A j \in 1..Len(issued) :
       SevenFields(issued[i].data) = SevenFields(issued[j].data) =>
         issued[i].hash = issued[j].hash
  /\ verified # None =>
       (SevenFields(verified.data) = SevenFields(issued[verified.of].data) =>
          verified.result = TRUE)

\* two different inputs agreeing on the seven fields were hashed, and an
\* input was verified against its own hash
C20_Witness ==
  /\ Len(issued) = 2
  /\ issued[1].data # issued[2].data
  /\ Len(issued[1].data.items) # Len(issued[2].data.items)
  /\ SevenFields(issued[1].data) = SevenFields(issued[2].data)
  /\ issued[1].hash = issued[2].hash
  /\ verified # None
  /\ verified.data = issued[verified.of].data
  /\ verified.result = TRUE

\* the last response is the verification of a stored certificate
IsVerification ==
  /\ response # None
  /\ "body" \in DOMAIN response
  /\ "hash_integrity_check" \in DOMAIN response.body

\* C21: the verification by hash of a stored certificate that is neither
\* revoked nor expired reports hash_integrity_check = true and verified =
\* true.
C21_CreateThenVerify ==
  IsVerification =>
    (is_valid(certs[find_by_hash(certs, response.body.certification_hash)], now) =>
       response.body.hash_integrity_check /\ response.body.verified)

\* C22: no two stored certificates belong to the same classification
\* session, also when create requests for one session are handled
\* concurrently.
C22_OneCertificatePerSession ==
  \A i \in DOMAIN certs : \A j \in DOMAIN certs :
    certs[i].classification_session_id = certs[j].classification_session_id => i = j

\* a revoked certificate is invalid, and a verification that found the
\* certificate REVOKED reports verified = false
RevokedIsInvalid ==
  /\ \A i \in DOMAIN certs : certs[i].status = "REVOKED" => ~is_valid(certs[i], now)
  /\ (IsVerification /\ response.body.status = "REVOKED") => ~response.body.verified

\* a step keeps every revoked certificate stored and REVOKED
RevokedStays ==
  \A i \in DOMAIN certs :
    certs[i].status = "REVOKED" => (i \in DOMAIN certs' /\ certs'[i].status = "REVOKED")

\* C23: once a certificate is REVOKED it stays stored and REVOKED under every
\* later revoke request, verify() call, verification query and passage of
\* time; it is invalid and its verification by hash reports verified = false.
C23_RevokedIsAbsorbing == []RevokedIsInvalid /\ [][RevokedStays]_vars

\* a certificate whose hash is intact was revoked and then verified by hash
C23_Witness ==
  /\ IsVerification
  /\ response.body.status = "REVOKED"
  /\ response.body.hash_integrity_check
  /\ ~response.body.verified
  /\ \E i \in DOMAIN certs : certs[i].status = "REVOKED"

\* what handle_revoke_certification must do with the row i it found (0 for
\* none) in the table: out is its outcome
RevokeOutcomeIsRight(table, out, i, reason) ==
  IF i = 0 THEN out.response.status_code = 404 /\ out.table = table
  ELSE IF table[i].status = "REVOKED"
  THEN out.response.status_code = 400 /\ out.table = table
  ELSE /\ table[i].status \in {"ACTIVE", "VERIFIED"}
       /\ out.response.status_code = 200
       /\ out.table = [table EXCEPT ![i] = [table[i] EXCEPT
                         !.status = "REVOKED",
                         !.certification_notes = "Revoked: " \o reason]]

C24_UniqueLotNumbers ==
  /\ \A i \in DOMAIN lots : \A j \in DOMAIN lots : lots[i] = lots[j] => i = j
  /\ \A w \in Workers :
       gpc[w] = "return" =>
         ~exists_by_lot_number(lots, LotNumber(current_year, sequential[w]))

\* the response the endpoint is to give to an accepted upload, by what the
\* service did
ExpectedResponse(outcome) ==
  IF "raised" \in DOMAIN outcome
  THEN (IF outcome.raised = "ValueError" THEN HTTPException(400, outcome.message)
        ELSE HTTPException(500, GenericDetail))
  ELSE IF outcome.returned.status = "FAILED"
  THEN HTTPException(500, "Clasificación fallida: " \o outcome.returned.classification_result.error)
  ELSE [status_code |-> 201, body |-> outcome.returned]

\* C25: for an accepted upload, a FAILED session is answered 500 with detail
\* 'Clasificación fallida: <reason>', a ValueError 400 with its message, any
\* other exception 500 with the generic detail.
C25_FailureReasonReachesCaller ==
  \A n \in DOMAIN exchanges :
    exchanges[n].content_type \in {"image/jpeg", "image/png"} =>
      exchanges[n].response = ExpectedResponse(exchanges[n].outcome)

\* position of an operation in the trace, 0 when it was not attempted
Attempt(op) ==
  IF \E n \in DOMAIN load_trace : load_trace[n] = op
  THEN CHOOSE n \in DOMAIN load_trace : load_trace[n] = op
  ELSE 0

\* the fallback order, on the trace so far
FallbackOrder ==
  /\ Attempt("download") > 0 =>
       \/ ~load_env.exists /\ Attempt("local_load") = 0
       \/ /\ load_env.exists
          /\ load_env.local_load = "raises"
          /\ 0 < Attempt("local_load")
          /\ Attempt("local_load") < Attempt("remove")
          /\ Attempt("remove") < Attempt("download")
  /\ Attempt("post_load") > 0 =>
       /\ Attempt("download") > 0
       /\ Attempt("download") < Attempt("post_load")
       /\ _download_model_from_blob(load_env)
  /\ load_at = "done" =>
       /\ loaded \in {None, [t |-> "Model"]}
       /\ (load_env.exists /\ load_env.local_load = "ok") =>
            (loaded # None /\ Attempt("download") = 0 /\ Attempt("remove") = 0)
       /\ (Attempt("download") > 0 /\ ~_download_model_from_blob(load_env)) => loaded = None
       /\ (Attempt("post_load") > 0 /\ load_env.post_load = "raises") => loaded = None
  /\ load_at # "done" => loaded = Unset

\* C26: _load_model tries the local file, then the download, then the load of
\* the downloaded file: it downloads only when the local file is missing or
\* failed to load (after the attempt to delete it), never after a successful
\* local load; it returns None when the download or the load after it fails;
\* it never raises and always returns, a model or None.
C26_FallbackOrder == []FallbackOrder /\ <>(load_at = "done")

\* the whole chain ran: corrupt local file, removal, download, load
C26_Witness ==
  /\ load_at = "done"
  /\ load_trace = <<"exists", "local_load", "remove", "download", "post_load">>
  /\ loaded = [t |-> "Model"]

IsTerminal(s) == s # None /\ s.status \in {"COMPLETED", "FAILED"}

\* C28: after any sequence of complete() and fail() calls, a COMPLETED session
\* holds a result without an 'error' key and total_grains_analyzed equal to the
\* report's total_beans_analyzed, at least 1; a FAILED session holds exactly
\* {'error': reason}; completed_at is set exactly in these two statuses.
C28_SessionInvariant ==
  aggregate # None =>
    /\ aggregate.status = "COMPLETED" =>
         /\ "error" \notin DOMAIN aggregate.classification_result
         /\ "total_beans_analyzed" \in DOMAIN aggregate.classification_result
         /\ aggregate.total_grains_analyzed =
              DictGet(aggregate.classification_result, "total_beans_analyzed", 0)
         /\ aggregate.total_grains_analyzed >= 1
    /\ aggregate.status = "FAILED" =>
         \E reason \in FailureReasons : aggregate.classification_result = [error |-> reason]
    /\ (aggregate.completed_at # None) <=> IsTerminal(aggregate)

\* the part of C28 on completed_at alone
CompletedAtIffTerminal ==
  aggregate # None => ((aggregate.completed_at # None) <=> IsTerminal(aggregate))

\* a step from a terminal session leaves status, result and completed_at alone
TerminalStays ==
  IsTerminal(aggregate) =>
    /\ aggregate'.status = aggregate.status
    /\ aggregate'.classification_result = aggregate.classification_result
    /\ aggregate'.completed_at = aggregate.completed_at

\* C29: once a session is COMPLETED or FAILED, no later complete() or fail()
\* changes its status, classification_result or completed_at.
C29_TerminalStatuses == [][TerminalStays]_vars

OrderIndependentCounts ==
  (/\ pc = "reported" /\ permuted # None
   /\ Len(permuted.order) = Len(bean_assessments) /\ Len(bean_assessments) > 0)
    => /\ permuted.report.total_beans_analyzed = report.total_beans_analyzed
       /\ permuted.report.category_distribution = report.category_distribution
====
